---------------------------- MODULE Spec2Model ----------------------------
(***************************************************************************)
(* Model of the duty-shift generator of GeneratoreTurniVVF                 *)
(* (vvf_scheduler/core.py): the load counters (Conteggi), the calendar     *)
(* (date_attive_anno) and the Scheduler that decides, date by date, the    *)
(* driver (autista) and the crew (vigili).                                 *)
(*                                                                         *)
(* A date is its ordinal day in the year Anno (1 = 1 January).  Names are  *)
(* strings; Python's None is the value None.  A dict with a default of 0   *)
(* is a function whose missing keys read as 0.                             *)
(***************************************************************************)
EXTENDS Integers, Sequences, FiniteSets, TLC

VARIABLES
    config,         \* the ProgramConfig and the months handed to Scheduler()
    coda,           \* dates still to decide, in costruisci's processing order
    fatti,          \* number of dates decided so far
    cont_aut,       \* Scheduler.cont_aut : Conteggi of the drivers
    cont_vig,       \* Scheduler.cont_vig : Conteggi of the crew
    squadre_visti,  \* Scheduler.squadre_visti
    log,            \* Scheduler.log
    assegnazioni,   \* costruisci's dict date -> Assegnazione
    autisti_reali,  \* Scheduler.autisti_reali
    rng,            \* state of the module-level generator of `random`
    tentativi,      \* the calls of _costruisci_per_data_internal made for the last date
    corsa,          \* the run in progress: its number, its entry point and its seed
    prima,          \* what the first run returned (for comparing two runs)
    chiamata        \* a call made outside a run: function, arguments, result

vars == <<config, coda, fatti, cont_aut, cont_vig, squadre_visti, log,
          assegnazioni, autisti_reali, rng, tentativi, corsa, prima, chiamata>>

None == "None"

\* Number of dates a run decides before the model stops following it.
MaxGiorni == 3

-----------------------------------------------------------------------------
(* Generic helpers *)

Max(a, b) == IF a >= b THEN a ELSE b

Get(f, k) == IF k \in DOMAIN f THEN f[k] ELSE 0

Inc(f, k) == IF k \in DOMAIN f THEN [f EXCEPT ![k] = @ + 1] ELSE f @@ (k :> 1)

Range(s) == {s[i] : i \in DOMAIN s}

RECURSIVE Somma(_, _)
Somma(f, S) == IF S = {} THEN 0
               ELSE LET x == CHOOSE y \in S : TRUE IN f[x] + Somma(f, S \ {x})

\* Python's tuple comparison a < b for two tuples of integers of equal length.
LexMinore(a, b) ==
    \E i \in DOMAIN a : a[i] < b[i] /\ \A j \in 1..(i - 1) : a[j] = b[j]

\* The names of the model, in Python's string order (sorted()).
Nomi == <<"Bianchi", "Conti", "Dotti", "Esposito", "Pogliani", "Rossi", "Varchi">>

Rango(n) == CHOOSE i \in DOMAIN Nomi : Nomi[i] = n

\* sorted(S): the names of S as an ascending list.
RECURSIVE Ordinata(_)
Ordinata(S) ==
    IF S = {} THEN <<>>
    ELSE LET m == CHOOSE x \in S : \A y \in S : Rango(x) <= Rango(y)
         IN <<m>> \o Ordinata(S \ {m})

\* [x for x in s if x in S]
RECURSIVE Filtra(_, _)
Filtra(s, S) ==
    IF s = <<>> THEN <<>>
    ELSE (IF Head(s) \in S THEN <<Head(s)>> ELSE <<>>) \o Filtra(Tail(s), S)

\* All the orders in which a set may be iterated.
RECURSIVE Permutazioni(_)
Permutazioni(S) ==
    IF S = {} THEN {<<>>}
    ELSE UNION {{<<x>> \o p : p \in Permutazioni(S \ {x})} : x \in S}

-----------------------------------------------------------------------------
(* Dates of the year Anno *)

Anno == 2023

\* date(Anno, 1, 1).weekday(), 0 = Monday .. 6 = Sunday.
PrimoGennaioDow == 6

GiorniAnno == 365

\* Days before the first day of each month.
GiorniPrima == <<0, 31, 59, 90, 120, 151, 181, 212, 243, 273, 304, 334>>

\* date.month
Mese(g) == CHOOSE m \in 1..12 :
              /\ GiorniPrima[m] < g
              /\ (m = 12 \/ g <= GiorniPrima[m + 1])

\* date.weekday()
Dow(g) == (g - 1 + PrimoGennaioDow) % 7

\* Scheduler._week_key: (iso year, iso week).  The Monday-based week of g is
\* counted from the week holding the year's first Thursday.
_week_key(g) ==
    LET lunedi  == g - Dow(g)                      \* ordinal of that week's Monday
        primo   == 1 - PrimoGennaioDow             \* Monday of 1 January's week
        spost   == IF PrimoGennaioDow <= 3 THEN 0 ELSE 1
        n       == (lunedi - primo) \div 7 + 1 - spost
    IN IF n >= 1 THEN <<Anno, n>> ELSE <<Anno - 1, 52>>

\* database.DEFAULT_ACTIVE_WEEKDAYS
DEFAULT_ACTIVE_WEEKDAYS == {4, 5, 6}

\* The while loop of date_attive_anno over the days da..a: what it appends
\* to risultati, the days of the first half of the interval and then those
\* of the second.
RECURSIVE _date_attive_tra(_, _, _, _)
_date_attive_tra(da, a, giorni_attivi, mesi_attivi) ==
    IF da > a THEN <<>>
    ELSE IF da = a
    THEN IF Dow(da) \in giorni_attivi /\ Mese(da) \in mesi_attivi THEN <<da>> ELSE <<>>
    ELSE LET mezzo == (da + a) \div 2
         IN _date_attive_tra(da, mezzo, giorni_attivi, mesi_attivi)
              \o _date_attive_tra(mezzo + 1, a, giorni_attivi, mesi_attivi)

\* date_attive_anno as it would be without the default weekdays.
date_attive_anno_senza_default(weekdays, months) ==
    LET giorni_attivi == {d \in weekdays : 0 <= d /\ d <= 6}
        dati          == IF months = {} THEN {} ELSE CHOOSE ms \in months : TRUE
        mesi_attivi0  == {m \in dati : 1 <= m /\ m <= 12}
        mesi_attivi   == IF mesi_attivi0 = {} THEN 1..12 ELSE mesi_attivi0
    IN _date_attive_tra(1, GiorniAnno, giorni_attivi, mesi_attivi)

\* date_attive_anno(anno, weekdays, months): the list it returns.  months is
\* {} for None and {ms} for the iterable ms.
date_attive_anno_lista(weekdays, months) ==
    LET giorni_attivi0 == {d \in weekdays : 0 <= d /\ d <= 6}
        giorni_attivi  == IF giorni_attivi0 = {} THEN DEFAULT_ACTIVE_WEEKDAYS ELSE giorni_attivi0
        dati           == IF months = {} THEN {} ELSE CHOOSE ms \in months : TRUE
        mesi_attivi0   == {m \in dati : 1 <= m /\ m <= 12}
        mesi_attivi    == IF mesi_attivi0 = {} THEN 1..12 ELSE mesi_attivi0
    IN _date_attive_tra(1, GiorniAnno, giorni_attivi, mesi_attivi)

\* date_attive_anno(anno, weekdays, months)
date_attive_anno(weekdays, months) ==
    LET giorni_attivi0 == {d \in weekdays : 0 <= d /\ d <= 6}
        giorni_attivi  == IF giorni_attivi0 = {} THEN {4, 5, 6} ELSE giorni_attivi0
        mesi_attivi0   == {m \in months : 1 <= m /\ m <= 12}
        mesi_attivi    == IF mesi_attivi0 = {} THEN 1..12 ELSE mesi_attivi0
    IN {g \in 1..GiorniAnno : Dow(g) \in giorni_attivi /\ Mese(g) \in mesi_attivi}

-----------------------------------------------------------------------------
(* Conteggi: the load counters of one role *)

\* The counters Conteggi.assicura_persona creates for a name (a weekday of
\* -1 stands for ultimo_giorno = None).
PersonaVuota ==
    [annuale |-> 0, per_mese |-> <<>>, per_mese_giorno |-> <<>>,
     per_giorno_anno |-> <<>>, per_settimana |-> <<>>, ultimo_giorno |-> -1]

\* Conteggi.assicura_persona: creates what is missing, resets nothing.
assicura_persona(c, nome) ==
    IF nome \in DOMAIN c THEN c ELSE c @@ (nome :> PersonaVuota)

\* Conteggi() followed by assicura_persona for each name of S.
ConteggiDi(S) == [n \in S |-> PersonaVuota]

\* aggiungi as it would be without the count of the week.
aggiungi_senza_settimana(c, nome, giorno) ==
    LET c1 == assicura_persona(c, nome)
        p  == c1[nome]
        q  == [annuale         |-> p.annuale + 1,
               per_mese        |-> Inc(p.per_mese, Mese(giorno)),
               per_mese_giorno |-> Inc(p.per_mese_giorno, <<Mese(giorno), Dow(giorno)>>),
               per_giorno_anno |-> Inc(p.per_giorno_anno, Dow(giorno)),
               per_settimana   |-> p.per_settimana,
               ultimo_giorno   |-> Dow(giorno)]
    IN [c1 EXCEPT ![nome] = q]

\* Conteggi.aggiungi
aggiungi(c, nome, giorno) ==
    LET c1 == assicura_persona(c, nome)
        p  == c1[nome]
        q  == [annuale         |-> p.annuale + 1,
               per_mese        |-> Inc(p.per_mese, Mese(giorno)),
               per_mese_giorno |-> Inc(p.per_mese_giorno, <<Mese(giorno), Dow(giorno)>>),
               per_giorno_anno |-> Inc(p.per_giorno_anno, Dow(giorno)),
               per_settimana   |-> Inc(p.per_settimana, _week_key(giorno)),
               ultimo_giorno   |-> Dow(giorno)]
    IN [c1 EXCEPT ![nome] = q]

\* aggiungi for each name of the list s, in order.
RECURSIVE aggiungi_tutti(_, _, _)
aggiungi_tutti(c, s, giorno) ==
    IF s = <<>> THEN c ELSE aggiungi_tutti(aggiungi(c, Head(s), giorno), Tail(s), giorno)

tot_mese(c, nome, mese) ==
    IF nome \in DOMAIN c THEN Get(c[nome].per_mese, mese) ELSE 0

tot_annuale(c, nome) ==
    IF nome \in DOMAIN c THEN c[nome].annuale ELSE 0

tot_mese_giorno(c, nome, mese, dow) ==
    IF nome \in DOMAIN c THEN Get(c[nome].per_mese_giorno, <<mese, dow>>) ELSE 0

tot_giorno_anno(c, nome, dow) ==
    IF nome \in DOMAIN c THEN Get(c[nome].per_giorno_anno, dow) ELSE 0

tot_settimana(c, nome, week_key) ==
    IF nome \in DOMAIN c THEN Get(c[nome].per_settimana, week_key) ELSE 0

ultimo_dow(c, nome) ==
    IF nome \in DOMAIN c THEN c[nome].ultimo_giorno ELSE -1

-----------------------------------------------------------------------------
(* What Scheduler.__init__ derives from the configuration cfg *)

DEFAULT_WEEKLY_CAP == 1

\* vvf_scheduler/constants.py
SUMMER_EXCLUDED_MONTHS == {7, 8}

\* self.enable_varchi_rule
enable_varchi_rule(cfg) == cfg.enable_varchi_rule /\ cfg.mode_varchi # "off"

\* self.autista_varchi, forgotten when the rule is not enabled
autista_varchi(cfg) == IF enable_varchi_rule(cfg) THEN cfg.autista_varchi ELSE None

\* self.autista_pogliani, forgotten when the rule is not enabled
autista_pogliani(cfg) == IF enable_varchi_rule(cfg) THEN cfg.autista_pogliani ELSE None

\* self.vigile_escluso_estate
vigile_escluso_estate(cfg) ==
    IF cfg.mode_summer # "off" THEN cfg.vigile_escluso_estate ELSE None

\* self.min_esperti
min_esperti(cfg) == Max(0, cfg.min_senior_value)

\* self.varchi_is_senior
varchi_is_senior(cfg) ==
    /\ enable_varchi_rule(cfg)
    /\ autista_varchi(cfg) # None
    /\ autista_varchi(cfg) \in cfg.vigili
    /\ autista_varchi(cfg) \in cfg.senior

\* self.esperienza_vigili.get(nome, LIV_JUNIOR) == LIV_SENIOR
e_senior(cfg, nome) == nome \in cfg.vigili /\ nome \in cfg.senior

\* Scheduler._limite_settimanale as it would be if it allowed one turn more.
_limite_settimanale_piu_uno(cfg, nome) ==
    IF nome \in DOMAIN cfg.weekly_cap THEN Max(0, cfg.weekly_cap[nome] + 1)
    ELSE Max(0, DEFAULT_WEEKLY_CAP + 1)

\* Scheduler._limite_settimanale
_limite_settimanale(cfg, nome) ==
    IF nome \in DOMAIN cfg.weekly_cap THEN Max(0, cfg.weekly_cap[nome])
    ELSE Max(0, DEFAULT_WEEKLY_CAP)

\* Scheduler._limite_raggiunto_raw as it would be if a cap of 0 allowed no turn.
_limite_raggiunto_raw_zero(cfg, c, nome, giorno) == tot_settimana(c, nome, _week_key(giorno)) >= _limite_settimanale(cfg, nome)

\* Scheduler._limite_raggiunto_raw
_limite_raggiunto_raw(cfg, c, nome, giorno) ==
    LET cap == _limite_settimanale(cfg, nome)
    IN IF cap <= 0 THEN FALSE
       ELSE tot_settimana(c, nome, _week_key(giorno)) >= cap

\* Scheduler._ha_raggiunto_limite as it would be if it did not look at the mode.
_ha_raggiunto_limite_ogni_modo(cfg, c, nome, giorno) == _limite_raggiunto_raw(cfg, c, nome, giorno)

\* Scheduler._ha_raggiunto_limite
_ha_raggiunto_limite(cfg, c, nome, giorno) ==
    IF cfg.mode_weekly_cap = "off" THEN FALSE
    ELSE LET raggiunto == _limite_raggiunto_raw(cfg, c, nome, giorno)
         IN IF raggiunto /\ cfg.mode_weekly_cap = "soft" THEN FALSE ELSE raggiunto

\* Scheduler._in_ferie: cfg.ferie holds <<name, start, end>>.
_in_ferie(cfg, nome, giorno) ==
    \E v \in cfg.ferie : v[1] = nome /\ v[2] <= giorno /\ giorno <= v[3]

\* Scheduler._preferenze_obbligatorie as it would be without the hard pairs.
_preferenze_obbligatorie_nessuna(cfg, autista) == {}

\* Scheduler._preferenze_obbligatorie
_preferenze_obbligatorie(cfg, autista) ==
    IF autista = None THEN {}
    ELSE {p[2] : p \in {q \in cfg.preferite_hard : q[1] = autista}}

\* Scheduler._preferenze_soft
_preferenze_soft(cfg, autista) ==
    IF autista = None THEN {}
    ELSE {p[2] : p \in {q \in cfg.preferite_soft : q[1] = autista}}

\* Scheduler._numero_vigili_previsti
_numero_vigili_previsti(dow) == 4

\* _ordine_giorni as it would be if it returned the weekdays in ascending
\* order.
_ordine_giorni_crescente(S) ==
    LET RECURSIVE crescente(_)
        crescente(T) ==
            IF T = {} THEN <<>>
            ELSE LET m == CHOOSE x \in T : \A y \in T : x <= y
                 IN <<m>> \o crescente(T \ {m})
    IN crescente(S)

\* Scheduler._ordine_giorni, for the weekdays S of one week.
_ordine_giorni(S) ==
    LET testa(d) == IF d \in S THEN <<d>> ELSE <<>>
        RECURSIVE crescente(_)
        crescente(T) ==
            IF T = {} THEN <<>>
            ELSE LET m == CHOOSE x \in T : \A y \in T : x <= y
                 IN <<m>> \o crescente(T \ {m})
    IN testa(5) \o testa(4) \o testa(6) \o crescente(S \ {4, 5, 6})

\* The order in which costruisci decides the dates D: week after week, each
\* week in the order of _ordine_giorni.
RECURSIVE OrdineDate(_)
OrdineDate(D) ==
    IF D = {} THEN <<>>
    ELSE LET primo == CHOOSE g \in D :
                          \A h \in D : ~LexMinore(_week_key(h), _week_key(g))
             sett  == {g \in D : _week_key(g) = _week_key(primo)}
             dows  == _ordine_giorni({Dow(g) : g \in sett})
             data(d) == CHOOSE g \in sett : Dow(g) = d
         IN [i \in DOMAIN dows |-> data(dows[i])] \o OrdineDate(D \ sett)

-----------------------------------------------------------------------------
(* random.random(): the module-level generator *)

\* The generator is either in a state nobody chose (-1: any float may come
\* out of it) or in a state reached from random.seed: then its draws are a
\* function of that state.  The seeded generator is a full-period congruential
\* one, so the draws of one sort are pairwise different, as floats are.
Avanza(x, i) ==
    LET RECURSIVE passi(_, _)
        passi(y, k) == IF k = 0 THEN y ELSE passi((5 * y + 3) % 16, k - 1)
    IN passi(x, i)

\* random.seed(seme)
random_seed(seme) == seme % 16

\* The candidates of the list `ordine` each draw one float, in order; the
\* winner is the one of `migliori` (those whose key is minimal before the
\* random component) with the smallest draw.
SceltaCasuale(r, ordine, migliori) ==
    IF r < 0 THEN migliori
    ELSE LET pos(m) == CHOOSE i \in DOMAIN ordine : ordine[i] = m
         IN {m \in migliori :
               \A o \in migliori : Avanza(r, pos(m)) <= Avanza(r, pos(o))}

\* The generator after the draws of `ordine`.
DopoEstrazioni(r, ordine) == IF r < 0 THEN r ELSE Avanza(r, Len(ordine))

-----------------------------------------------------------------------------
(* Scheduler._log: an entry is <<date, category, message>>, the message a   *)
(* tuple of its fixed text (a tag) and the values formatted into it.        *)

Voce(giorno, categoria, messaggio) == <<giorno, categoria, messaggio>>

-----------------------------------------------------------------------------
(* Scheduler._scegli_autista *)

\* Step 1 as it would be if the cap removed drivers in every mode.
CandidatiAutista_limite_sempre(cfg, ca, giorno, esclusioni) ==
    {n \in cfg.autisti :
        /\ n \notin esclusioni
        /\ ~_in_ferie(cfg, n, giorno)
        /\ ~_limite_raggiunto_raw(cfg, ca, n, giorno)}

\* Step 1: the drivers left after exclusions, vacations and the hard cap.
CandidatiAutista(cfg, ca, giorno, esclusioni) ==
    {n \in cfg.autisti :
        /\ n \notin esclusioni
        /\ ~_in_ferie(cfg, n, giorno)
        /\ ~(cfg.mode_weekly_cap = "hard" /\ _limite_raggiunto_raw(cfg, ca, n, giorno))}

\* The sort key of a driver, without its random last component.
ChiaveAutista(cfg, ca, nome, giorno) ==
    <<IF _limite_raggiunto_raw(cfg, ca, nome, giorno) THEN 1 ELSE 0,
      tot_settimana(ca, nome, _week_key(giorno)),
      tot_mese(ca, nome, Mese(giorno)),
      tot_annuale(ca, nome),
      tot_giorno_anno(ca, nome, Dow(giorno)),
      IF ultimo_dow(ca, nome) = Dow(giorno) THEN 1 ELSE 0>>

\* The set of results the call may have: the driver (or None), the counters,
\* the log and the generator after it.
_scegli_autista(cfg, ca, lg, r, giorno, esclusioni) ==
    LET candidati == CandidatiAutista(cfg, ca, giorno, esclusioni)
        preferiti == {n \in candidati :
                        tot_mese_giorno(ca, n, Mese(giorno), Dow(giorno)) < 1}
        pool      == IF preferiti = {} THEN candidati ELSE preferiti
        lg1       == IF preferiti = {}
                     THEN Append(lg, Voce(giorno, "AUTISTA", <<"DerogaMeseGiorno">>))
                     ELSE lg
        chiave(n) == ChiaveAutista(cfg, ca, n, giorno)
        migliori  == {n \in pool : \A o \in pool : ~LexMinore(chiave(o), chiave(n))}
        limite(n) == _limite_raggiunto_raw(cfg, ca, n, giorno)
    IN IF candidati = {}
       THEN {[autista |-> None, cont_aut |-> ca, rng |-> r, candidati |-> candidati,
              log |-> Append(lg, Voce(giorno, "AUTISTA", <<"NessunAutista">>))]}
       ELSE {[autista   |-> scelto,
              cont_aut  |-> aggiungi(ca, scelto, giorno),
              rng       |-> DopoEstrazioni(r, Ordinata(pool)),
              candidati |-> candidati,
              log       |-> IF cfg.mode_weekly_cap = "soft" /\ limite(scelto)
                            THEN Append(lg1, Voce(giorno, "AUTISTA",
                                                  <<"DerogaLimiteSettimanale", scelto>>))
                            ELSE lg1]
             : scelto \in SceltaCasuale(r, Ordinata(pool), migliori)}

-----------------------------------------------------------------------------
(* Scheduler._scegli_squadra_vigili *)

\* list(itertools.combinations(s, k)): the k-combinations of the list s, in
\* the order itertools yields them.
RECURSIVE combinations(_, _)
combinations(s, k) ==
    IF k = 0 THEN << <<>> >>
    ELSE IF Len(s) < k THEN <<>>
    ELSE LET con == combinations(Tail(s), k - 1)
         IN [i \in DOMAIN con |-> <<Head(s)>> \o con[i]] \o combinations(Tail(s), k)

\* [x for x in s if P[x]], P a function to BOOLEAN
RECURSIVE Seleziona(_, _)
Seleziona(s, P) ==
    IF s = <<>> THEN <<>>
    ELSE (IF P[Head(s)] THEN <<Head(s)>> ELSE <<>>) \o Seleziona(Tail(s), P)

\* summer_block as it would be if the rule's mode were not looked at.
summer_block_senza_modo(cfg, nome, giorno) ==
    /\ cfg.vigile_escluso_estate # None
    /\ nome = cfg.vigile_escluso_estate
    /\ Mese(giorno) \in SUMMER_EXCLUDED_MONTHS

\* The local summer_block of a crew member.
summer_block(cfg, nome, giorno) ==
    /\ vigile_escluso_estate(cfg) # None
    /\ nome = vigile_escluso_estate(cfg)
    /\ Mese(giorno) \in SUMMER_EXCLUDED_MONTHS
    /\ cfg.mode_summer # "off"

\* The crew members the first loop keeps (neither excluded, nor on vacation,
\* nor removed by a rule in hard mode).
Considerati(cfg, cv, giorno, esclusioni) ==
    {n \in cfg.vigili :
        /\ n \notin esclusioni
        /\ ~_in_ferie(cfg, n, giorno)
        /\ ~(cfg.mode_summer = "hard" /\ summer_block(cfg, n, giorno))
        /\ ~(cfg.mode_weekly_cap = "hard" /\ _limite_raggiunto_raw(cfg, cv, n, giorno))}

\* fallback_candidates
FallbackCandidates(cfg, cv, giorno, esclusioni) ==
    {n \in Considerati(cfg, cv, giorno, esclusioni) :
        summer_block(cfg, n, giorno) \/ _limite_raggiunto_raw(cfg, cv, n, giorno)}

\* candidati_base
CandidatiBase(cfg, cv, giorno, esclusioni) ==
    Considerati(cfg, cv, giorno, esclusioni) \ FallbackCandidates(cfg, cv, giorno, esclusioni)

\* any(frozenset(pair) in self.forbidden_hard for pair in combinations(team, 2))
HaCoppiaVietata(cfg, team) ==
    \E a \in Range(team), b \in Range(team) : a # b /\ {a, b} \in cfg.vietate_hard

\* senior_count
senior_count(cfg, team) == Cardinality({n \in Range(team) : e_senior(cfg, n)})

\* Whether the seniority rule makes the loop skip a team (the `continue`).
ScartataPerSenior(cfg, team, ci_sono_senior) ==
    /\ min_esperti(cfg) > 0
    /\ ci_sono_senior
    /\ senior_count(cfg, team) < min_esperti(cfg)
    /\ cfg.mode_min_senior # "soft"

\* The score as it would be without the count of the soft-forbidden pairs.
Punteggio_senza_sconsigliate(cfg, cv, sv, team, giorno, autista_corrente) ==
    LET T    == Range(team)
        mese == Mese(giorno)
        dow  == Dow(giorno)
        wk   == _week_key(giorno)
    IN <<0,
         Cardinality({n \in T : tot_mese_giorno(cv, n, mese, dow) >= 1}),
         IF T \notin sv THEN 0 ELSE 1,
         Somma([n \in T |-> tot_settimana(cv, n, wk)], T),
         Somma([n \in T |-> tot_mese(cv, n, mese)], T),
         Somma([n \in T |-> tot_annuale(cv, n)], T),
         Somma([n \in T |-> tot_giorno_anno(cv, n, dow)], T),
         Cardinality({n \in T : ultimo_dow(cv, n) = dow}),
         0 - Cardinality(T \cap _preferenze_soft(cfg, autista_corrente))>>

\* punteggio, without its random last component.
Punteggio(cfg, cv, sv, team, giorno, autista_corrente) ==
    LET T    == Range(team)
        mese == Mese(giorno)
        dow  == Dow(giorno)
        wk   == _week_key(giorno)
    IN <<Cardinality({c \in cfg.vietate_soft : c \subseteq T}),
         Cardinality({n \in T : tot_mese_giorno(cv, n, mese, dow) >= 1}),
         IF T \notin sv THEN 0 ELSE 1,
         Somma([n \in T |-> tot_settimana(cv, n, wk)], T),
         Somma([n \in T |-> tot_mese(cv, n, mese)], T),
         Somma([n \in T |-> tot_annuale(cv, n)], T),
         Somma([n \in T |-> tot_giorno_anno(cv, n, dow)], T),
         Cardinality({n \in T : ultimo_dow(cv, n) = dow}),
         0 - Cardinality(T \cap _preferenze_soft(cfg, autista_corrente))>>

\* A result of the call without a team (return None).
SenzaSquadra(cv, sv, lg, r, base, fallback, disponibili, scartate, limiti, estivi) ==
    [riuscita |-> FALSE, squadra |-> <<>>, cont_vig |-> cv, squadre_visti |-> sv,
     log |-> lg, rng |-> r,
     candidati_base |-> base, fallback_candidates |-> fallback,
     disponibili |-> disponibili, scartate_senior |-> scartate,
     limit_map |-> limiti, summer_map |-> estivi]

\* The part of the call after disponibili is known, for one iteration order
\* `obb` of the driver's hard-preferred set.
SquadraDa(cfg, cv, sv, lg, r, giorno, n_vigili, autista_corrente, base, fallback, disponibili, obb, limiti, estivi) ==
    LET D                == Range(disponibili)
        ci_sono_senior   == \E n \in D : e_senior(cfg, n)
        mancanti         == Filtra(obb, Range(obb) \ D)
        lg1              == lg \o [i \in DOMAIN mancanti |->
                                     Voce(giorno, "VIGILI", <<"MancaPreferito", mancanti[i]>>)]
        obb_disp         == Filtra(obb, D)
        troppi           == Len(obb_disp) > n_vigili
        lg2              == IF troppi
                            THEN Append(lg1, Voce(giorno, "VIGILI", <<"PreferitiEccedenti">>))
                            ELSE lg1
        obbligatori      == IF troppi THEN SubSeq(obb_disp, 1, n_vigili) ELSE obb_disp
        slot_rimanenti   == Max(0, n_vigili - Len(obbligatori))
        residui          == Filtra(disponibili, D \ Range(obbligatori))
        comb             == combinations(residui, slot_rimanenti)
        squadre          == [i \in DOMAIN comb |-> obbligatori \o comb[i]]
        lecite           == Seleziona(squadre,
                               [t \in Range(squadre) |-> ~HaCoppiaVietata(cfg, t)])
        poche            == Seleziona(lecite,
                               [t \in Range(lecite) |->
                                  senior_count(cfg, t) < min_esperti(cfg)])
        lg3              == IF min_esperti(cfg) > 0 /\ ~ci_sono_senior /\ lecite # <<>>
                            THEN Append(lg2, Voce(giorno, "VIGILI", <<"DerogaNessunSenior">>))
                            ELSE IF /\ min_esperti(cfg) > 0
                                    /\ ci_sono_senior
                                    /\ cfg.mode_min_senior = "soft"
                                    /\ poche # <<>>
                            THEN Append(lg2, Voce(giorno, "VIGILI",
                                     <<"DerogaSenior", senior_count(cfg, poche[1]),
                                       min_esperti(cfg)>>))
                            ELSE lg2
        scartate         == {t \in Range(lecite) : ScartataPerSenior(cfg, t, ci_sono_senior)}
        soluzioni        == Seleziona(lecite,
                               [t \in Range(lecite) |-> t \notin scartate])
        punti(t)         == Punteggio(cfg, cv, sv, t, giorno, autista_corrente)
        migliori         == {t \in Range(soluzioni) :
                               \A o \in Range(soluzioni) : ~LexMinore(punti(o), punti(t))}
        limite(n)        == _limite_raggiunto_raw(cfg, cv, n, giorno)
        DopoScelta(team) ==
            LET viol == punti(team)[1]
                a1 == IF viol > 0
                      THEN Append(lg3, Voce(giorno, "VIGILI", <<"DerogaCoppieSconsigliate", viol>>))
                      ELSE lg3
                a2 == IF Range(team) \in sv
                      THEN Append(a1, Voce(giorno, "VIGILI", <<"SquadraGiaVista", team>>))
                      ELSE a1
                oltre == IF cfg.mode_weekly_cap = "soft"
                         THEN Filtra(team, {n \in Range(team) : limite(n)}) ELSE <<>>
                a3 == a2 \o [i \in DOMAIN oltre |->
                               Voce(giorno, "VIGILI", <<"DerogaLimiteSettimanale", oltre[i]>>)]
                estate == IF cfg.mode_summer = "soft"
                          THEN Filtra(team, {n \in Range(team) : summer_block(cfg, n, giorno)})
                          ELSE <<>>
                a4 == a3 \o [i \in DOMAIN estate |->
                               Voce(giorno, "VIGILI", <<"DerogaRegolaEstiva", estate[i]>>)]
            IN [riuscita |-> TRUE, squadra |-> team,
                cont_vig |-> aggiungi_tutti(cv, team, giorno),
                squadre_visti |-> sv \cup {Range(team)},
                log |-> a4,
                rng |-> DopoEstrazioni(r, soluzioni),
                candidati_base |-> base, fallback_candidates |-> fallback,
                disponibili |-> disponibili, scartate_senior |-> scartate,
                limit_map |-> limiti, summer_map |-> estivi]
    IN IF slot_rimanenti > Len(residui)
       THEN {SenzaSquadra(cv, sv,
                Append(lg2, Voce(giorno, "VIGILI",
                         <<"ImpossibileCompletare", slot_rimanenti, Len(residui)>>)),
                r, base, fallback, disponibili, {}, limiti, estivi)}
       ELSE IF soluzioni = <<>>
       THEN {SenzaSquadra(cv, sv,
                Append(lg3, Voce(giorno, "VIGILI", <<"NessunaCombinazione">>)),
                r, base, fallback, disponibili, scartate, limiti, estivi)}
       ELSE {DopoScelta(team) : team \in SceltaCasuale(r, soluzioni, migliori)}

\* The set of results the call may have.
_scegli_squadra_vigili(cfg, cv, sv, lg, r, giorno, n_vigili, autista_corrente, esclusioni) ==
    LET base        == Ordinata(CandidatiBase(cfg, cv, giorno, esclusioni))
        fallback    == Ordinata(FallbackCandidates(cfg, cv, giorno, esclusioni))
        estendo     == Len(base) < n_vigili /\ fallback # <<>>
        limite(n)   == _limite_raggiunto_raw(cfg, cv, n, giorno)
        motivi      == (IF \E n \in Range(fallback) : limite(n)
                        THEN {"limite settimanale"} ELSE {})
                       \cup
                       (IF \E n \in Range(fallback) : summer_block(cfg, n, giorno)
                        THEN {"regola estiva"} ELSE {})
        lg1         == IF estendo
                       THEN Append(lg, Voce(giorno, "VIGILI",
                                            <<"DerogaIncludo", motivi, fallback>>))
                       ELSE lg
        disponibili == IF estendo THEN base \o fallback ELSE base
        \* the names whose limit_map / summer_map entry is true
        limiti      == {n \in Considerati(cfg, cv, giorno, esclusioni) : limite(n)}
        estivi      == {n \in Considerati(cfg, cv, giorno, esclusioni) :
                          summer_block(cfg, n, giorno)}
    IN IF n_vigili <= 0
       THEN {[SenzaSquadra(cv, sv, lg, r, <<>>, <<>>, <<>>, {}, {}, {})
                EXCEPT !.riuscita = TRUE]}
       ELSE IF Len(disponibili) < n_vigili
       THEN {SenzaSquadra(cv, sv,
                Append(lg1, Voce(giorno, "VIGILI",
                         <<"CandidatiInsufficienti", Len(disponibili), n_vigili>>)),
                r, base, fallback, disponibili, {}, limiti, estivi)}
       ELSE UNION {SquadraDa(cfg, cv, sv, lg1, r, giorno, n_vigili, autista_corrente,
                             base, fallback, disponibili, obb, limiti, estivi)
                   : obb \in Permutazioni(_preferenze_obbligatorie(cfg, autista_corrente))}

-----------------------------------------------------------------------------
(* The special rotation rule and the decision of one date *)

\* _aggiungi_varchi_venerdi as it would be if it gave up the bonus slot
\* without a log entry.
_aggiungi_varchi_venerdi_muto(cfg, cv, sv, lg, giorno, squadra) ==
    LET v      == autista_varchi(cfg)
        uguale == [squadra |-> squadra, cont_vig |-> cv, squadre_visti |-> sv, log |-> lg]
    IN IF v = None \/ v \in Range(squadra) \/ _in_ferie(cfg, v, giorno)
          \/ _ha_raggiunto_limite(cfg, cv, v, giorno)
       THEN uguale
       ELSE [squadra       |-> Append(squadra, v),
             cont_vig      |-> aggiungi(cv, v, giorno),
             squadre_visti |-> sv \cup {Range(squadra) \cup {v}},
             log           |-> Append(lg, Voce(giorno, "VIGILI", <<"VenerdiSpeciale", v>>))]

\* Scheduler._aggiungi_varchi_venerdi: the list, the crew counters, the seen
\* teams and the log after the call.
_aggiungi_varchi_venerdi(cfg, cv, sv, lg, giorno, squadra) ==
    LET v      == autista_varchi(cfg)
        uguale == [squadra |-> squadra, cont_vig |-> cv, squadre_visti |-> sv, log |-> lg]
    IN IF v = None THEN uguale
       ELSE IF v \in Range(squadra) THEN uguale
       ELSE IF _in_ferie(cfg, v, giorno)
       THEN [uguale EXCEPT !.log = Append(lg, Voce(giorno, "VIGILI", <<"VarchiInFerie", v>>))]
       ELSE IF _ha_raggiunto_limite(cfg, cv, v, giorno)
       THEN [uguale EXCEPT !.log = Append(lg, Voce(giorno, "VIGILI", <<"VarchiAlLimite", v>>))]
       ELSE [squadra       |-> Append(squadra, v),
             cont_vig      |-> aggiungi(cv, v, giorno),
             squadre_visti |-> sv \cup {Range(squadra) \cup {v}},
             log           |-> Append(lg, Voce(giorno, "VIGILI", <<"VenerdiSpeciale", v>>))]

\* squadra_list as it is, neither padded nor cut.
QuattroSlot_senza_riempire(squadra) == squadra

\* squadra_list padded with None up to four slots, cut at four.
QuattroSlot(squadra) ==
    [i \in 1..4 |-> IF i <= Len(squadra) THEN squadra[i] ELSE None]

\* Scheduler._turno_incompleto
_turno_incompleto(assegnazione) ==
    \/ assegnazione.autista = None
    \/ \E i \in DOMAIN assegnazione.vigili : assegnazione.vigili[i] = None

\* _trova_autista_settimanale as it would be if it read the displayed driver
\* of the Assegnazione instead of the real one.
_trova_autista_visualizzato(ass, reali, giorno, target_dow) ==
    LET trovate == {d \in DOMAIN ass :
                      _week_key(d) = _week_key(giorno) /\ Dow(d) = target_dow}
    IN IF trovate = {} THEN None
       ELSE ass[CHOOSE x \in trovate : TRUE].autista

\* Scheduler._trova_autista_settimanale
_trova_autista_settimanale(ass, reali, giorno, target_dow) ==
    LET trovate == {d \in DOMAIN ass :
                      _week_key(d) = _week_key(giorno) /\ Dow(d) = target_dow}
    IN IF trovate = {} THEN None
       ELSE LET d == CHOOSE x \in trovate : TRUE
            IN IF d \in DOMAIN reali THEN reali[d] ELSE ass[d].autista

\* esclusioni_autista of _costruisci_per_data_internal
EsclusioniAutista(cfg, giorno, sabato_autista, apply_varchi) ==
    (IF apply_varchi /\ autista_varchi(cfg) # None /\ Dow(giorno) # 4
     THEN {autista_varchi(cfg)} ELSE {})
    \cup
    (IF /\ apply_varchi
        /\ Dow(giorno) = 4
        /\ autista_varchi(cfg) # None
        /\ autista_pogliani(cfg) # None
        /\ sabato_autista = autista_pogliani(cfg)
     THEN {autista_varchi(cfg)} ELSE {})

\* include_varchi of _costruisci_per_data_internal
IncludeVarchi(cfg, giorno, sabato_autista, apply_varchi) ==
    /\ apply_varchi
    /\ varchi_is_senior(cfg)
    /\ Dow(giorno) = 4
    /\ autista_varchi(cfg) # None
    /\ (autista_pogliani(cfg) = None \/ sabato_autista # autista_pogliani(cfg))

\* The state a call works on: the counters, the seen teams, the log, the generator.
Stato(ca, cv, sv, lg, r) ==
    [cont_aut |-> ca, cont_vig |-> cv, squadre_visti |-> sv, log |-> lg, rng |-> r]

\* Scheduler._costruisci_per_data_internal from the state st: the set of its
\* possible results, each the state after it, the (Assegnazione, autista)
\* it returns and a record of what the call computed on the way.
_costruisci_per_data_internal(cfg, st, giorno, sabato_autista, apply_varchi) ==
    LET dow       == Dow(giorno)
        escl_aut  == EsclusioniAutista(cfg, giorno, sabato_autista, apply_varchi)
        lg0       == IF /\ apply_varchi
                        /\ dow = 4
                        /\ autista_varchi(cfg) # None
                        /\ autista_pogliani(cfg) # None
                        /\ sabato_autista = autista_pogliani(cfg)
                     THEN Append(st.log, Voce(giorno, "AUTISTA",
                              <<"SabatoGuidaEscludo", autista_pogliani(cfg), autista_varchi(cfg)>>))
                     ELSE st.log
        include   == IncludeVarchi(cfg, giorno, sabato_autista, apply_varchi)
        n_base    == Max(0, _numero_vigili_previsti(dow) - (IF include THEN 1 ELSE 0))
        EsclusioniVigili(autista) ==
            (IF autista # None THEN {autista} ELSE {})
            \cup (IF apply_varchi /\ autista_varchi(cfg) # None
                  THEN {autista_varchi(cfg)} ELSE {})
        Dopo(a, s) ==
            LET autista == a.autista
                sostituisco == /\ apply_varchi
                               /\ varchi_is_senior(cfg)
                               /\ dow = 5
                               /\ autista = autista_pogliani(cfg)
                               /\ autista_varchi(cfg) # None
                display == IF sostituisco THEN autista_varchi(cfg) ELSE autista
                bonus == IF s.riuscita /\ include
                         THEN _aggiungi_varchi_venerdi(cfg, s.cont_vig, s.squadre_visti,
                                                       s.log, giorno, s.squadra)
                         ELSE [squadra |-> s.squadra, cont_vig |-> s.cont_vig,
                               squadre_visti |-> s.squadre_visti, log |-> s.log]
                lgf == IF s.riuscita THEN bonus.log
                       ELSE Append(s.log, Voce(giorno, "VIGILI", <<"TurnoScoperto">>))
                ass == [giorno  |-> giorno,
                        autista |-> IF s.riuscita THEN display ELSE autista,
                        vigili  |-> IF s.riuscita THEN QuattroSlot(bonus.squadra)
                                    ELSE <<None, None, None, None>>]
            IN [st |-> Stato(a.cont_aut, bonus.cont_vig, bonus.squadre_visti, lgf, s.rng),
                assegnazione |-> ass,
                autista_reale |-> autista,
                traccia |->
                    [giorno |-> giorno,
                     apply_varchi |-> apply_varchi,
                     sabato_autista |-> sabato_autista,
                     esclusioni_autista |-> escl_aut,
                     candidati_autista |-> a.candidati,
                     cont_aut_prima |-> st.cont_aut,
                     cont_vig_prima |-> st.cont_vig,
                     squadre_visti_prima |-> st.squadre_visti,
                     autisti_al_limite |-> {n \in cfg.autisti :
                                              _limite_raggiunto_raw(cfg, st.cont_aut, n, giorno)},
                     autista |-> autista,
                     include_varchi |-> include,
                     n_vigili |-> n_base,
                     candidati_base |-> s.candidati_base,
                     fallback_candidates |-> s.fallback_candidates,
                     disponibili |-> s.disponibili,
                     scartate_senior |-> s.scartate_senior,
                     riuscita |-> s.riuscita,
                     squadra |-> s.squadra,
                     limit_map |-> s.limit_map,
                     summer_map |-> s.summer_map,
                     esclusioni_vigili |-> EsclusioniVigili(autista),
                     al_limite |-> {n \in cfg.vigili :
                                      _limite_raggiunto_raw(cfg, st.cont_vig, n, giorno)},
                     incompleto |-> _turno_incompleto(ass)]]
        Vigili(a) ==
            LET autista == a.autista
                sostituisco == /\ apply_varchi
                               /\ varchi_is_senior(cfg)
                               /\ dow = 5
                               /\ autista = autista_pogliani(cfg)
                               /\ autista_varchi(cfg) # None
                lg1 == IF sostituisco
                       THEN Append(a.log, Voce(giorno, "AUTISTA",
                                <<"VisualizzoAlPostoDi", autista_varchi(cfg), autista_pogliani(cfg)>>))
                       ELSE a.log
                escl_vig == EsclusioniVigili(autista)
            IN {Dopo(a, s) :
                  s \in _scegli_squadra_vigili(cfg, st.cont_vig, st.squadre_visti, lg1, a.rng,
                                               giorno, n_base, autista, escl_vig)}
    IN UNION {Vigili(a) :
                a \in _scegli_autista(cfg, st.cont_aut, lg0, st.rng, giorno, escl_aut)}

-----------------------------------------------------------------------------
(* The configurations a run may be given *)

\* The configuration the others are variations of.
Base ==
    [autisti               |-> {"Pogliani", "Rossi", "Varchi"},
     vigili                |-> {"Bianchi", "Conti", "Dotti", "Esposito", "Varchi"},
     senior                |-> {"Bianchi", "Varchi"},
     weekly_cap            |-> <<>>,
     vietate_hard          |-> {},
     vietate_soft          |-> {},
     preferite_hard        |-> {},
     preferite_soft        |-> {},
     autista_varchi        |-> "Varchi",
     autista_pogliani      |-> "Pogliani",
     vigile_escluso_estate |-> "Esposito",
     min_senior_value      |-> 1,
     ferie                 |-> {},
     active_weekdays       |-> {4, 5, 6},
     enable_varchi_rule    |-> TRUE,
     months                |-> {8},
     mode_min_senior       |-> "hard",
     mode_weekly_cap       |-> "hard",
     mode_summer           |-> "hard",
     mode_varchi           |-> "hard"]

\* The other values a field of the configuration takes in the model.
Alternative ==
    {<<"senior", {"Varchi"}>>,
     <<"senior", {}>>,
     <<"weekly_cap", ("Bianchi" :> 0) @@ ("Conti" :> 2) @@ ("Dotti" :> 2)
                     @@ ("Esposito" :> 2) @@ ("Rossi" :> 2) @@ ("Pogliani" :> -1)>>,
     <<"vietate_hard", {{"Bianchi", "Varchi"}}>>,
     <<"vietate_hard", {{"Bianchi", "Conti"}}>>,
     <<"vietate_soft", {{"Conti", "Dotti"}}>>,
     <<"preferite_hard", {<<"Rossi", "Dotti">>}>>,
     <<"preferite_soft", {<<"Pogliani", "Conti">>}>>,
     <<"min_senior_value", 2>>,
     <<"ferie", {<<"Varchi", 216, 216>>}>>,
     <<"ferie", {<<"Rossi", 217, 218>>}>>,
     <<"ferie", {<<"Varchi", 217, 217>>}>>,
     <<"enable_varchi_rule", FALSE>>,
     <<"months", {9}>>}

Modi == {"hard", "soft", "off"}

\* The configurations that differ from c in at most one field of Alternative.
Varianti(C) == C \cup {[c EXCEPT ![a[1]] = a[2]] : c \in C, a \in Alternative}

\* A configuration that differs from Base in two fields: Varchi is the only
\* senior and is on vacation on the first Friday.
Doppie == {[Base EXCEPT !.senior = {"Varchi"}, !.ferie = {<<"Varchi", 216, 216>>}]}

Configurazioni ==
    {[c EXCEPT !.mode_min_senior = m[1], !.mode_weekly_cap = m[2],
               !.mode_summer = m[3], !.mode_varchi = m[4]]
       : c \in Varianti({Base}) \cup Doppie, m \in Modi \X Modi \X Modi \X Modi}

-----------------------------------------------------------------------------
(* Scheduler(anno, config, months).costruisci() *)

\* Scheduler.__init__ and the start of costruisci, with the generator in the
\* state r: the values of the run's variables.
SchedulerNuovo(cfg, r) ==
    [coda          |-> OrdineDate(date_attive_anno(cfg.active_weekdays, cfg.months)),
     cont_aut      |-> ConteggiDi(cfg.autisti),
     cont_vig      |-> ConteggiDi(cfg.vigili),
     squadre_visti |-> {},
     log           |-> <<>>,
     assegnazioni  |-> <<>>,
     autisti_reali |-> <<>>,
     rng           |-> r]

\* A run of Scheduler(anno, config, months).costruisci() called directly, the
\* generator in a state nobody chose.
Init ==
    \E cfg \in Configurazioni :
      LET s == SchedulerNuovo(cfg, -1)
      IN /\ config = cfg
         /\ coda = s.coda
         /\ fatti = 0
         /\ cont_aut = s.cont_aut
         /\ cont_vig = s.cont_vig
         /\ squadre_visti = s.squadre_visti
         /\ log = s.log
         /\ assegnazioni = s.assegnazioni
         /\ autisti_reali = s.autisti_reali
         /\ rng = s.rng
         /\ tentativi = <<>>
         /\ corsa = [n |-> 1, ingresso |-> "Scheduler", seed |-> -1, giorni |-> MaxGiorni]
         /\ prima = <<>>
         /\ chiamata = <<>>

\* What _costruisci_per_data leaves behind for the date it was called on.
Deciso(giorno, e, chiamate) ==
    /\ cont_aut' = e.st.cont_aut
    /\ cont_vig' = e.st.cont_vig
    /\ squadre_visti' = e.st.squadre_visti
    /\ log' = e.st.log
    /\ rng' = e.st.rng
    /\ assegnazioni' = assegnazioni @@ (giorno :> e.assegnazione)
    /\ autisti_reali' = autisti_reali @@ (giorno :> e.autista_reale)
    /\ tentativi' = chiamate
    /\ coda' = Tail(coda)
    /\ fatti' = fatti + 1
    /\ UNCHANGED <<config, corsa, prima, chiamata>>

\* The retry condition as it would be if the rule's mode were not looked at.
Riprova_ogni_modo(cfg, assegnazione) ==
    /\ enable_varchi_rule(cfg)
    /\ _turno_incompleto(assegnazione)

\* The condition under which _costruisci_per_data builds the date again
\* without the special rule.
Riprova(cfg, assegnazione) ==
    /\ enable_varchi_rule(cfg)
    /\ cfg.mode_varchi = "soft"
    /\ _turno_incompleto(assegnazione)

\* The results Scheduler._costruisci_per_data may have on the next date of
\* the processing order: what the last internal call returned and left
\* behind, and the internal calls made.
EsitiPerData ==
    LET giorno == Head(coda)
        sabato == _trova_autista_settimanale(assegnazioni, autisti_reali, giorno, 5)
        st0    == Stato(cont_aut, cont_vig, squadre_visti, log, rng)
        dopo(e1) ==
            IF Riprova(config, e1.assegnazione)
            THEN LET st1 == [e1.st EXCEPT !.log =
                               Append(@, Voce(giorno, "AUTISTA", <<"DerogaVarchiPogliani">>))]
                 IN {[e |-> e2, chiamate |-> <<e1.traccia, e2.traccia>>] :
                       e2 \in _costruisci_per_data_internal(config, st1, giorno, sabato, FALSE)}
            ELSE {[e |-> e1, chiamate |-> <<e1.traccia>>]}
    IN UNION {dopo(e1) : e1 \in _costruisci_per_data_internal(config, st0, giorno, sabato,
                                                              enable_varchi_rule(config))}

\* One iteration of costruisci's loop: Scheduler._costruisci_per_data on the
\* next date of the processing order.
_costruisci_per_data ==
    /\ coda # <<>>
    /\ fatti < corsa.giorni
    /\ \E x \in EsitiPerData : Deciso(Head(coda), x.e, x.chiamate)

Next == _costruisci_per_data

Spec == Init /\ [][Next]_vars

-----------------------------------------------------------------------------
(* Two runs with the same configuration and the same seed *)

\* The seeds a caller passes.
MaxSeme == 2
Semi == 1..MaxSeme

\* The states the module-level generator may be in when nobody seeded it.
MaxStatoGeneratore == 3
StatiGeneratore == 0..MaxStatoGeneratore

\* The configurations of the repeated runs: one rule mode for all four rules.
ConfigurazioniRipetute ==
    {[c EXCEPT !.mode_min_senior = m, !.mode_weekly_cap = m,
               !.mode_summer = m, !.mode_varchi = m]
       : c \in Varianti({Base}), m \in Modi}

\* The generator at the start of costruisci when the run is started through
\* `ingresso` with `seme`, the generator being in the state r before: main
\* calls random.seed(seme) and then esegui; esegui takes the seed and never
\* reads it.
GeneratoreAllAvvio(ingresso, seme, r) ==
    IF ingresso = "main" THEN random_seed(seme) ELSE r

\* The run is over: costruisci has gone through its dates.
Finita == coda = <<>> \/ fatti = corsa.giorni

\* The first of the two runs has just been started.
InitRipetute ==
    \E cfg \in ConfigurazioniRipetute, ingresso \in {"main", "esegui"},
       seme \in Semi, r \in StatiGeneratore :
      LET s == SchedulerNuovo(cfg, GeneratoreAllAvvio(ingresso, seme, r))
      IN /\ config = cfg
         /\ coda = s.coda
         /\ fatti = 0
         /\ cont_aut = s.cont_aut
         /\ cont_vig = s.cont_vig
         /\ squadre_visti = s.squadre_visti
         /\ log = s.log
         /\ assegnazioni = s.assegnazioni
         /\ autisti_reali = s.autisti_reali
         /\ rng = s.rng
         /\ tentativi = <<>>
         /\ corsa = [n |-> 1, ingresso |-> ingresso, seed |-> seme, giorni |-> MaxGiorni]
         /\ prima = <<>>
         /\ chiamata = <<>>

\* The first run is over and its result kept; the same entry point is called
\* again with the same configuration and seed, the generator in any state.
esegui ==
    /\ corsa.n = 1
    /\ Finita
    /\ \E r \in StatiGeneratore \cup {rng} :
         LET s == SchedulerNuovo(config, GeneratoreAllAvvio(corsa.ingresso, corsa.seed, r))
         IN /\ coda' = s.coda
            /\ fatti' = 0
            /\ cont_aut' = s.cont_aut
            /\ cont_vig' = s.cont_vig
            /\ squadre_visti' = s.squadre_visti
            /\ log' = s.log
            /\ assegnazioni' = s.assegnazioni
            /\ autisti_reali' = s.autisti_reali
            /\ rng' = s.rng
    /\ tentativi' = <<>>
    /\ corsa' = [corsa EXCEPT !.n = 2]
    /\ prima' = [assegnazioni |-> assegnazioni, log |-> log]
    /\ UNCHANGED <<config, chiamata>>

NextRipetute == _costruisci_per_data \/ esegui

SpecRipetute == InitRipetute /\ [][NextRipetute]_vars

-----------------------------------------------------------------------------
(* Runs over other calendars *)

\* The sets of active weekdays and of months of these runs.
GiorniAttivi == {{4, 5, 6}, {5}, {4, 5}, {4, 6}, {1, 3, 5}, {0, 4, 6}, {0, 2, 3}}
MesiAttivi == {{1}, {7}, {8}}

\* The configurations of these runs: one rule mode for all four rules.
ConfigurazioniCalendario ==
    {[Base EXCEPT !.active_weekdays = w, !.months = ms,
                  !.mode_min_senior = m, !.mode_weekly_cap = m,
                  !.mode_summer = m, !.mode_varchi = m]
       : w \in GiorniAttivi, ms \in MesiAttivi, m \in Modi}

InitCalendario ==
    \E cfg \in ConfigurazioniCalendario :
      LET s == SchedulerNuovo(cfg, -1)
      IN /\ config = cfg
         /\ coda = s.coda
         /\ fatti = 0
         /\ cont_aut = s.cont_aut
         /\ cont_vig = s.cont_vig
         /\ squadre_visti = s.squadre_visti
         /\ log = s.log
         /\ assegnazioni = s.assegnazioni
         /\ autisti_reali = s.autisti_reali
         /\ rng = s.rng
         /\ tentativi = <<>>
         /\ corsa = [n |-> 1, ingresso |-> "Scheduler", seed |-> -1, giorni |-> MaxGiorni]
         /\ prima = <<>>
         /\ chiamata = <<>>

SpecCalendario == InitCalendario /\ [][Next]_vars

-----------------------------------------------------------------------------
(* Runs followed to their end *)

\* The dates of the longest calendar followed to its end.
MaxGiorniInteri == 8

\* Vacations and weekly caps of the runs followed to their end: none; one
\* vacation that covers the first Friday (day 34), or the first Friday and
\* the first two Saturdays (days 35 and 42); the latter with a cap of two
\* for every crew member.
FerieELimiti ==
    {<<{}, <<>>>>,
     <<{<<"Varchi", 34, 34>>}, <<>>>>,
     <<{<<"Rossi", 34, 42>>}, <<>>>>,
     <<{<<"Rossi", 34, 42>>}, [n \in Base.vigili |-> 2]>>}

\* February has four of each weekday: calendars of four and of eight dates,
\* one mode for the first three rules and the special rule hard or soft.
ConfigurazioniIntere ==
    {[Base EXCEPT !.active_weekdays = w, !.months = {2},
                  !.ferie = f[1], !.weekly_cap = f[2],
                  !.mode_min_senior = m, !.mode_weekly_cap = m,
                  !.mode_summer = m, !.mode_varchi = mv]
       : w \in {{5}, {4, 5}}, m \in Modi, mv \in {"hard", "soft"}, f \in FerieELimiti}

InitIntera ==
    \E cfg \in ConfigurazioniIntere :
      LET s == SchedulerNuovo(cfg, -1)
      IN /\ config = cfg
         /\ coda = s.coda
         /\ fatti = 0
         /\ cont_aut = s.cont_aut
         /\ cont_vig = s.cont_vig
         /\ squadre_visti = s.squadre_visti
         /\ log = s.log
         /\ assegnazioni = s.assegnazioni
         /\ autisti_reali = s.autisti_reali
         /\ rng = s.rng
         /\ tentativi = <<>>
         /\ corsa = [n |-> 1, ingresso |-> "Scheduler", seed |-> -1,
                     giorni |-> MaxGiorniInteri]
         /\ prima = <<>>
         /\ chiamata = <<>>

SpecIntera == InitIntera /\ [][Next]_vars

-----------------------------------------------------------------------------
(* Runs with hard preferences *)

\* The dates of a run with hard preferences that the model follows.
MaxGiorniPreferenze == 1

\* The hard preferences of these runs: Rossi paired with one crew member,
\* and Rossi paired with every crew member, one more than a team has slots.
PreferenzeDure == {{<<"Rossi", "Dotti">>}, {"Rossi"} \X Base.vigili}

\* One mode for the first three rules, and every mode of the special rule:
\* with the special rule off Varchi is in the pool of a date driven by Rossi.
ConfigurazioniPreferenze ==
    {[Base EXCEPT !.preferite_hard = p,
                  !.mode_min_senior = m, !.mode_weekly_cap = m,
                  !.mode_summer = m, !.mode_varchi = mv]
       : p \in PreferenzeDure, m \in Modi, mv \in Modi}

InitPreferenze ==
    \E cfg \in ConfigurazioniPreferenze :
      LET s == SchedulerNuovo(cfg, -1)
      IN /\ config = cfg
         /\ coda = s.coda
         /\ fatti = 0
         /\ cont_aut = s.cont_aut
         /\ cont_vig = s.cont_vig
         /\ squadre_visti = s.squadre_visti
         /\ log = s.log
         /\ assegnazioni = s.assegnazioni
         /\ autisti_reali = s.autisti_reali
         /\ rng = s.rng
         /\ tentativi = <<>>
         /\ corsa = [n |-> 1, ingresso |-> "Scheduler", seed |-> -1,
                     giorni |-> MaxGiorniPreferenze]
         /\ prima = <<>>
         /\ chiamata = <<>>

SpecPreferenze == InitPreferenze /\ [][Next]_vars

-----------------------------------------------------------------------------
(* Runs over two weeks *)

\* The dates of a run over two weeks that the model follows: the Saturday,
\* Friday and Sunday of the first two weeks of February.
MaxGiorniSettimane == 6

\* The weekly cap soft or off, the special rule hard or soft.
ConfigurazioniSettimane ==
    {[Base EXCEPT !.months = {2}, !.mode_weekly_cap = m, !.mode_varchi = mv]
       : m \in {"soft", "off"}, mv \in {"hard", "soft"}}

InitSettimane ==
    \E cfg \in ConfigurazioniSettimane :
      LET s == SchedulerNuovo(cfg, -1)
      IN /\ config = cfg
         /\ coda = s.coda
         /\ fatti = 0
         /\ cont_aut = s.cont_aut
         /\ cont_vig = s.cont_vig
         /\ squadre_visti = s.squadre_visti
         /\ log = s.log
         /\ assegnazioni = s.assegnazioni
         /\ autisti_reali = s.autisti_reali
         /\ rng = s.rng
         /\ tentativi = <<>>
         /\ corsa = [n |-> 1, ingresso |-> "Scheduler", seed |-> -1,
                     giorni |-> MaxGiorniSettimane]
         /\ prima = <<>>
         /\ chiamata = <<>>

SpecSettimane == InitSettimane /\ [][Next]_vars

-----------------------------------------------------------------------------
(* Calls of date_attive_anno *)

\* The weekdays handed to date_attive_anno: in range, out of range, none.
GiorniDati == SUBSET {-1, 0, 2, 4, 5, 6, 7}

\* The months handed to it: None, no month, months out of range and in range.
MesiDati == {{}, {{}}, {{0}}, {{13}}, {{0, 13}}, {{2}}, {{0, 2}}, {{1, 12}}, {{7, 8}}, {1..12}}

InitDate ==
    /\ config = Base
    /\ coda = <<>>
    /\ fatti = 0
    /\ cont_aut = <<>>
    /\ cont_vig = <<>>
    /\ squadre_visti = {}
    /\ log = <<>>
    /\ assegnazioni = <<>>
    /\ autisti_reali = <<>>
    /\ rng = -1
    /\ tentativi = <<>>
    /\ corsa = [n |-> 0, ingresso |-> "date_attive_anno", seed |-> -1, giorni |-> 0]
    /\ prima = <<>>
    /\ \E w \in GiorniDati, ms \in MesiDati :
         chiamata = [weekdays |-> w, months |-> ms, fatta |-> FALSE, ritorno |-> <<>>]

\* date_attive_anno(Anno, chiamata.weekdays, chiamata.months)
chiama_date_attive_anno ==
    /\ corsa.ingresso = "date_attive_anno"
    /\ ~chiamata.fatta
    /\ chiamata' = [chiamata EXCEPT !.fatta = TRUE,
                      !.ritorno = date_attive_anno_lista(chiamata.weekdays, chiamata.months)]
    /\ UNCHANGED <<config, coda, fatti, cont_aut, cont_vig, squadre_visti, log,
                   assegnazioni, autisti_reali, rng, tentativi, corsa, prima>>

NextDate == chiama_date_attive_anno

SpecDate == InitDate /\ [][NextDate]_vars

-----------------------------------------------------------------------------
(* Calls of Conteggi: a Conteggi of its own, held in cont_vig, on which     *)
(* assicura_persona and aggiungi are called in any order                    *)

\* The number of calls made on the Conteggi.
MaxOperazioni == 3

\* The names the calls are made with.
NomiDati == {"Rossi", "Bianchi"}

\* The dates the calls are made with: 1 January (ISO week 52 of the year
\* before), 2 January, two Fridays of February, 31 December.
DateDate == {1, 2, 34, 41, 365}

InitConteggi ==
    /\ config = Base
    /\ coda = <<>>
    /\ fatti = 0
    /\ cont_aut = <<>>
    /\ cont_vig \in {<<>>, ConteggiDi({"Rossi"})}
    /\ squadre_visti = {}
    /\ log = <<>>
    /\ assegnazioni = <<>>
    /\ autisti_reali = <<>>
    /\ rng = -1
    /\ tentativi = <<>>
    /\ corsa = [n |-> 0, ingresso |-> "Conteggi", seed |-> -1, giorni |-> 0]
    /\ prima = <<>>
    /\ chiamata = <<>>

chiama_assicura_persona ==
    /\ corsa.ingresso = "Conteggi"
    /\ corsa.n < MaxOperazioni
    /\ \E nome \in NomiDati :
         /\ cont_vig' = assicura_persona(cont_vig, nome)
         /\ chiamata' = [funzione |-> "assicura_persona", nome |-> nome, giorno |-> 0]
    /\ corsa' = [corsa EXCEPT !.n = @ + 1]
    /\ UNCHANGED <<config, coda, fatti, cont_aut, squadre_visti, log,
                   assegnazioni, autisti_reali, rng, tentativi, prima>>

chiama_aggiungi ==
    /\ corsa.ingresso = "Conteggi"
    /\ corsa.n < MaxOperazioni
    /\ \E nome \in NomiDati, giorno \in DateDate :
         /\ cont_vig' = aggiungi(cont_vig, nome, giorno)
         /\ chiamata' = [funzione |-> "aggiungi", nome |-> nome, giorno |-> giorno]
    /\ corsa' = [corsa EXCEPT !.n = @ + 1]
    /\ UNCHANGED <<config, coda, fatti, cont_aut, squadre_visti, log,
                   assegnazioni, autisti_reali, rng, tentativi, prima>>

NextConteggi == chiama_assicura_persona \/ chiama_aggiungi

SpecConteggi == InitConteggi /\ [][NextConteggi]_vars

-----------------------------------------------------------------------------
(* Reading the result of a run *)

\* self.date: the calendar of the run.
Calendario == date_attive_anno(config.active_weekdays, config.months)

\* The names in the crew slots of the Assegnazione of date d.
Equipaggio(d) == {assegnazioni[d].vigili[i] : i \in 1..4} \ {None}

\* The dates already decided.
Decise == DOMAIN assegnazioni

\* The log entries of date d with the tag `tag`.
VociDi(d, tag) == {i \in DOMAIN log : log[i][1] = d /\ log[i][3][1] = tag}

\* The date the last call of _costruisci_per_data decided.
UltimoGiorno == tentativi[1].giorno

\* C1: in every Assegnazione no two names of the crew slots (the Friday bonus
\* slot included) form a hard-forbidden pair.
C1_NessunaCoppiaVietata ==
    \A d \in Decise :
      \A a \in Equipaggio(d), b \in Equipaggio(d) :
        a # b => {a, b} \notin config.vietate_hard

\* C2: in every Assegnazione no name appears twice across the driver field
\* and the four crew slots.
C2_NessunNomeDueVolte ==
    \A d \in Decise :
      /\ \A i \in 1..4, j \in 1..4 :
           (i # j /\ assegnazioni[d].vigili[i] # None)
             => assegnazioni[d].vigili[i] # assegnazioni[d].vigili[j]
      /\ assegnazioni[d].autista # None => assegnazioni[d].autista \notin Equipaggio(d)
      /\ autisti_reali[d] # None => autisti_reali[d] \notin Equipaggio(d)

\* The dates of week w on which p is the real driver or holds a crew slot.
TurniSettimana(p, w) ==
    {d \in Decise : _week_key(d) = w /\ (autisti_reali[d] = p \/ p \in Equipaggio(d))}

\* C3: with the weekly-cap rule in hard mode, a person whose weekly cap is
\* greater than 0 has at most cap assignments (as driver or crew) in any ISO
\* week.
C3_LimiteSettimanaleTotale ==
    config.mode_weekly_cap = "hard" =>
      \A p \in config.autisti \cup config.vigili :
        _limite_settimanale(config, p) > 0 =>
          \A d \in Decise :
            Cardinality(TurniSettimana(p, _week_key(d))) <= _limite_settimanale(config, p)

\* C4: with the weekly-cap rule off, a crew member at or above the cap is a
\* base candidate, never a fallback one, and no weekly-cap relaxation is
\* logged.
C4_LimiteOffNonFiltra ==
    config.mode_weekly_cap = "off" =>
      /\ \A i \in DOMAIN tentativi :
           tentativi[i].limit_map \cap Range(tentativi[i].fallback_candidates) = {}
      /\ \A i \in DOMAIN log :
           /\ log[i][3][1] # "DerogaLimiteSettimanale"
           /\ log[i][3][1] = "DerogaIncludo" => "limite settimanale" \notin log[i][3][2]

\* C5: with the minimum-seniors rule off, no candidate team is rejected for
\* having fewer seniors than the minimum.
C5_SeniorOffNonScarta ==
    config.mode_min_senior = "off" =>
      \A i \in DOMAIN tentativi : tentativi[i].scartate_senior = {}

\* Whether crew selection treated the name e as it treats any crew member:
\* kept unless excluded, on vacation or at the cap in hard mode, and among
\* the fallback candidates only for having reached the cap.
TrattatoComeGliAltri(t, e) ==
    /\ (/\ e \in config.vigili
        /\ e \notin t.esclusioni_vigili
        /\ ~_in_ferie(config, e, t.giorno)
        /\ ~(config.mode_weekly_cap = "hard" /\ e \in t.al_limite))
         => e \in Range(t.candidati_base) \cup Range(t.fallback_candidates)
    /\ e \in Range(t.fallback_candidates) => e \in t.al_limite

\* C6: with the summer rule off, the summer-excluded member is, in July and
\* August too, neither skipped nor a fallback candidate, and no summer
\* relaxation is logged.
C6_EstateOffNonFiltra ==
    config.mode_summer = "off" =>
      /\ \A i \in DOMAIN tentativi :
           /\ tentativi[i].summer_map = {}
           /\ TrattatoComeGliAltri(tentativi[i], config.vigile_escluso_estate)
      /\ \A i \in DOMAIN log :
           /\ log[i][3][1] # "DerogaRegolaEstiva"
           /\ log[i][3][1] = "DerogaIncludo" => "regola estiva" \notin log[i][3][2]

\* C6 witness: summer rule off, a date of August, the summer-excluded member
\* was a base candidate and holds a crew slot.
C6_Witness ==
    /\ config.mode_summer = "off"
    /\ tentativi # <<>>
    /\ Mese(UltimoGiorno) \in SUMMER_EXCLUDED_MONTHS
    /\ config.vigile_escluso_estate \in Range(tentativi[Len(tentativi)].candidati_base)
    /\ config.vigile_escluso_estate \in Equipaggio(UltimoGiorno)

\* C7 as stated: whenever the rule is enabled and the date built with it is
\* incomplete, the date is built again once, without the rule, and the
\* relaxation is logged.
C7_RiprovaQuandoAbilitata ==
    (tentativi # <<>> /\ tentativi[1].apply_varchi /\ tentativi[1].incompleto)
      => /\ Len(tentativi) = 2
         /\ ~tentativi[2].apply_varchi
         /\ Cardinality(VociDi(UltimoGiorno, "DerogaVarchiPogliani")) = 1

\* C7 amended: the date is built again, once, without the rule and with a
\* log entry, exactly when the rule is enabled in soft mode and the date built
\* with it is incomplete; in hard mode the incomplete result is accepted as
\* it is.  No date is ever built more than twice.
C7_RiprovaSoloSoft ==
    /\ \A d \in Decise : Cardinality(VociDi(d, "DerogaVarchiPogliani")) <= 1
    /\ tentativi # <<>> =>
         LET riprova == /\ tentativi[1].apply_varchi
                        /\ config.mode_varchi = "soft"
                        /\ tentativi[1].incompleto
         IN /\ tentativi[1].apply_varchi = enable_varchi_rule(config)
            /\ riprova =>
                 /\ Len(tentativi) = 2
                 /\ ~tentativi[2].apply_varchi
                 /\ tentativi[2].esclusioni_autista = {}
                 /\ ~tentativi[2].include_varchi
                 /\ tentativi[2].esclusioni_vigili \subseteq {tentativi[2].autista}
                 /\ Cardinality(VociDi(UltimoGiorno, "DerogaVarchiPogliani")) = 1
            /\ ~riprova =>
                 /\ Len(tentativi) = 1
                 /\ VociDi(UltimoGiorno, "DerogaVarchiPogliani") = {}

\* C7 witness: a date built with the rule was incomplete and has been built
\* again without it.
C7_Witness ==
    /\ Len(tentativi) = 2
    /\ tentativi[1].incompleto
    /\ config.mode_varchi = "soft"

\* C8: for every person the annual total of the driver counters is the number
\* of dates whose real driver they are, and the annual total of the crew
\* counters is the number of dates on which they hold a crew slot.
C8_ContatoriSoloConfermati ==
    /\ \A p \in config.autisti :
         tot_annuale(cont_aut, p) = Cardinality({d \in Decise : autisti_reali[d] = p})
    /\ \A p \in config.vigili :
         tot_annuale(cont_vig, p) = Cardinality({d \in Decise : p \in Equipaggio(d)})

\* The Saturday of g's ISO week is decided and its real driver is p.
SabatoGuidatoDa(g, p) ==
    \E s \in Decise : _week_key(s) = _week_key(g) /\ Dow(s) = 5 /\ autisti_reali[s] = p

\* C10: while the rule is applied, the rotation driver is in no driver pool
\* of a non-Friday date, nor of a Friday whose same-week Saturday the linked
\* driver really drove (and then the log records the exclusion); so in hard
\* mode the rotation driver really drives only Fridays whose Saturday the
\* linked driver did not drive.
C10_EsclusioneRotazione ==
    LET v == autista_varchi(config)
        p == autista_pogliani(config)
    IN /\ \A i \in DOMAIN tentativi :
            LET t == tentativi[i]
            IN (t.apply_varchi /\ v # None) =>
                 /\ Dow(t.giorno) # 4 => v \notin t.candidati_autista
                 /\ (Dow(t.giorno) = 4 /\ p # None /\ SabatoGuidatoDa(t.giorno, p)) =>
                      /\ v \notin t.candidati_autista
                      /\ VociDi(t.giorno, "SabatoGuidaEscludo") # {}
       /\ (enable_varchi_rule(config) /\ config.mode_varchi = "hard" /\ v # None) =>
            \A d \in Decise :
              autisti_reali[d] = v =>
                /\ Dow(d) = 4
                /\ ~(p # None /\ SabatoGuidatoDa(d, p))

\* C10 witness: a Friday built with the rule whose Saturday the linked driver
\* drove: the rotation driver, free that day, was kept out of the pool.
C10_Witness ==
    /\ tentativi # <<>>
    /\ tentativi[1].apply_varchi
    /\ Dow(UltimoGiorno) = 4
    /\ SabatoGuidatoDa(UltimoGiorno, autista_pogliani(config))
    /\ autista_varchi(config) \in tentativi[1].esclusioni_autista
    /\ ~_in_ferie(config, autista_varchi(config), UltimoGiorno)
    /\ tentativi[1].candidati_autista # {}

\* C9: when the second of two runs started through esegui with the same
\* configuration, months and seed is over, its assignments and its log are
\* those of the first run.
C9_StessoSemeStessoRisultato ==
    (corsa.n = 2 /\ corsa.ingresso = "esegui" /\ Finita) =>
      /\ assegnazioni = prima.assegnazioni
      /\ log = prima.log

\* The place of a weekday in the order of a week: Saturday, Friday, Sunday,
\* then the other weekdays in ascending order.
PostoNellaSettimana(dow) ==
    IF dow = 5 THEN 0 ELSE IF dow = 4 THEN 1 ELSE IF dow = 6 THEN 2 ELSE 3 + dow

\* Date a comes before date b in the stated order: an earlier week (every
\* date of it is earlier), or the same week and an earlier place in it.
VienePrima(a, b) ==
    \/ _week_key(a) # _week_key(b) /\ a < b
    \/ _week_key(a) = _week_key(b)
         /\ PostoNellaSettimana(Dow(a)) < PostoNellaSettimana(Dow(b))

\* C11: the decided dates are always an initial part of the stated order
\* (weeks chronologically, each week Saturday, Friday, Sunday, the rest
\* ascending), and when a Friday is decided the Saturday of its week, if in
\* the calendar, is decided and its real driver is what the Friday rule read
\* (None if the week has no Saturday in the calendar).
C11_OrdineFisso ==
    /\ \A d \in Decise : \A e \in Calendario : VienePrima(e, d) => e \in Decise
    /\ Decise \subseteq Calendario
    /\ (tentativi # <<>> /\ Dow(UltimoGiorno) = 4) =>
         LET sabati == {s \in Calendario :
                          _week_key(s) = _week_key(UltimoGiorno) /\ Dow(s) = 5}
         IN \A i \in DOMAIN tentativi :
              /\ \A s \in sabati :
                   s \in Decise /\ tentativi[i].sabato_autista = autisti_reali[s]
              /\ sabati = {} => tentativi[i].sabato_autista = None

\* C11 witness: a Friday has been decided after the Saturday of its week,
\* which has a driver, and before the Sunday of that week, which is in the
\* calendar.
C11_Witness ==
    /\ tentativi # <<>>
    /\ Dow(UltimoGiorno) = 4
    /\ UltimoGiorno + 1 \in Decise
    /\ tentativi[1].sabato_autista # None
    /\ UltimoGiorno + 2 \in Calendario \ Decise

\* The keys of the dict assegnazioni in insertion order: the dates decided
\* so far, in the order costruisci went through them.
Inserite ==
    LET ordine == OrdineDate(Calendario)
    IN SubSeq(ordine, 1, Len(ordine) - Len(coda))

\* A list left as it is.
non_ordinata(s) == s

\* sorted(s) for a list of dates.
sorted(s) ==
    LET RECURSIVE inserisci(_, _)
        inserisci(x, t) ==
            IF t = <<>> THEN <<x>>
            ELSE IF x < Head(t) THEN <<x>> \o t
            ELSE <<Head(t)>> \o inserisci(x, Tail(t))
        RECURSIVE ordina(_)
        ordina(t) == IF t = <<>> THEN <<>> ELSE inserisci(Head(t), ordina(Tail(t)))
    IN ordina(s)

\* What costruisci returns: [assegnazioni[d] for d in sorted(assegnazioni)].
costruisci_ritorno ==
    LET chiavi == sorted(Inserite)
    IN [i \in DOMAIN chiavi |-> assegnazioni[chiavi[i]]]

\* C12: every iteration decides a date of the calendar not decided before,
\* and when the loop is over the returned list holds one Assegnazione for
\* each date of the calendar and no other, in ascending order of date.
C12_UnaPerData ==
    /\ Decise \subseteq Calendario
    /\ Cardinality(Decise) = fatti
    /\ Range(Inserite) = Decise
    /\ coda = <<>> =>
         LET r == costruisci_ritorno
         IN /\ Len(r) = Cardinality(Calendario)
            /\ {r[i].giorno : i \in DOMAIN r} = Calendario
            /\ \A i \in DOMAIN r : \A j \in DOMAIN r : i < j => r[i].giorno < r[j].giorno

\* C12 witness: a run over Fridays and Saturdays is over; the Saturday was
\* decided before the Friday of its week.
C12_Witness ==
    /\ coda = <<>>
    /\ fatti = 8
    /\ Inserite[1] > Inserite[2]
    /\ Len(costruisci_ritorno) = 8

\* C13: every decided date without a driver has a log entry saying that no
\* driver was available, every decided date with an empty crew slot has a
\* log entry saying that the crew could not be formed or that the bonus slot
\* was given up; as long as dates are left the call on the next one returns
\* a result, and when none is left every date of the calendar is decided.
C13_DataInsoddisfattaNonFerma ==
    /\ \A d \in Decise :
         /\ assegnazioni[d].autista = None => VociDi(d, "NessunAutista") # {}
         /\ (\E i \in 1..4 : assegnazioni[d].vigili[i] = None) =>
              \/ VociDi(d, "TurnoScoperto") # {}
              \/ VociDi(d, "VarchiInFerie") # {}
              \/ VociDi(d, "VarchiAlLimite") # {}
    /\ (coda # <<>> /\ fatti < corsa.giorni) => EsitiPerData # {}
    /\ coda = <<>> => Decise = Calendario

\* C13 witness: the run is over, all dates are decided, a date that was not
\* the last to be decided has no driver and one has an empty crew slot.
C13_Witness ==
    /\ coda = <<>>
    /\ Decise = Calendario
    /\ \E i \in 1..(Len(Inserite) - 1) : assegnazioni[Inserite[i]].autista = None
    /\ \E i \in 1..(Len(Inserite) - 1) :
         \E k \in 1..4 : assegnazioni[Inserite[i]].vigili[k] = None

\* C14: the crew of every Assegnazione has exactly four slots, each a crew
\* member's name or None.  On the date just decided: after a failed crew
\* selection the four slots are None; after a successful one the slots hold
\* the chosen team, then the bonus member if one was added, then None.
C14_QuattroSlot ==
    /\ \A d \in Decise :
         /\ DOMAIN assegnazioni[d].vigili = 1..4
         /\ \A i \in 1..4 : assegnazioni[d].vigili[i] \in config.vigili \cup {None}
    /\ tentativi # <<>> =>
         LET t == tentativi[Len(tentativi)]
             v == assegnazioni[UltimoGiorno].vigili
             k == Len(t.squadra)
         IN /\ DOMAIN v = 1..4
            /\ ~t.riuscita => v = <<None, None, None, None>>
            /\ t.riuscita =>
                 /\ k = t.n_vigili
                 /\ k <= 4
                 /\ \A i \in 1..k : v[i] = t.squadra[i] /\ v[i] # None
                 /\ \A i \in (k + 1)..4 :
                      \/ v[i] = None
                      \/ i = k + 1 /\ t.include_varchi /\ v[i] = autista_varchi(config)

\* C14 witness: the crew selection for a Friday returned three names and the
\* bonus slot was given up: three names and one None.
C14_Witness ==
    /\ tentativi # <<>>
    /\ tentativi[Len(tentativi)].riuscita
    /\ tentativi[Len(tentativi)].include_varchi
    /\ assegnazioni[UltimoGiorno].vigili[3] # None
    /\ assegnazioni[UltimoGiorno].vigili[4] = None

AutistiRimasti(t) ==
    {n \in config.autisti :
        /\ n \notin t.esclusioni_autista
        /\ ~_in_ferie(config, n, t.giorno)
        /\ ~(config.mode_weekly_cap = "hard" /\ n \in t.autisti_al_limite)}

\* C16: a call of the driver selection returns None exactly when no driver
\* remains, and otherwise one of those that remain.  When the call that
\* decided the date returned None, the log has an entry for it, the date has
\* its Assegnazione, without driver and with the crew the crew selection
\* gave; and a date decided by one call that returned None leaves the driver
\* counters as they were.
C16_NessunAutista ==
    /\ [](\A i \in DOMAIN tentativi :
            LET t == tentativi[i]
            IN /\ t.autista = None <=> AutistiRimasti(t) = {}
               /\ t.autista # None => t.autista \in AutistiRimasti(t)
               /\ t.candidati_autista = AutistiRimasti(t))
    /\ [](tentativi # <<>> =>
            LET t == tentativi[Len(tentativi)]
                g == UltimoGiorno
            IN t.autista = None =>
                 /\ VociDi(g, "NessunAutista") # {}
                 /\ assegnazioni[g].autista = None
                 /\ autisti_reali[g] = None
                 /\ t.riuscita =>
                      \A k \in 1..Len(t.squadra) : assegnazioni[g].vigili[k] = t.squadra[k])
    /\ [][(Len(tentativi') = 1 /\ tentativi'[1].autista = None) => cont_aut' = cont_aut]_vars

\* C16 witness: the driver selection returned None and the crew selection
\* returned a full team for the same date.
C16_Witness ==
    /\ tentativi # <<>>
    /\ tentativi[Len(tentativi)].autista = None
    /\ tentativi[Len(tentativi)].riuscita
    /\ assegnazioni[UltimoGiorno].vigili[4] # None

\* The drivers neither excluded nor on vacation for an internal call t.
AutistiAmmessi(t) ==
    {n \in config.autisti : n \notin t.esclusioni_autista /\ ~_in_ferie(config, n, t.giorno)}

\* The driver turns of p in the ISO week of g on the dates decided before g.
GuidePrima(p, g) ==
    Cardinality({d \in Decise \ {g} : _week_key(d) = _week_key(g) /\ autisti_reali[d] = p})

\* The "deroga limite settimanale" entries of the driver category for d.
DerogheAutista(d) ==
    {i \in VociDi(d, "DerogaLimiteSettimanale") : log[i][2] = "AUTISTA"}

\* C17: with the weekly cap in soft mode every driver neither excluded nor
\* on vacation is a candidate, a sole candidate is chosen, and the log has a
\* driver entry "deroga limite settimanale" for a date exactly when its
\* driver had already driven as many dates of that ISO week as its cap.
C17_DerogaSoloOltreIlLimite ==
    (config.mode_weekly_cap = "soft" /\ tentativi # <<>>) =>
      /\ \A i \in DOMAIN tentativi :
           LET t == tentativi[i]
           IN /\ t.candidati_autista = AutistiAmmessi(t)
              /\ \A n \in config.autisti : AutistiAmmessi(t) = {n} => t.autista = n
      /\ LET g == UltimoGiorno
             a == autisti_reali[g]
         IN DerogheAutista(g) # {} <=>
              /\ a # None
              /\ _limite_settimanale(config, a) > 0
              /\ GuidePrima(a, g) >= _limite_settimanale(config, a)

\* The pool of an internal call t: the base candidates, with the fallback
\* candidates when the base candidates are fewer than the team.
Rosa(t) ==
    IF Len(t.candidati_base) < t.n_vigili
    THEN Range(t.candidati_base) \cup Range(t.fallback_candidates)
    ELSE Range(t.candidati_base)

\* The teams of the size of t's team taken from its pool that hold every
\* crew member of the pool hard-preferred by t's driver and no pair that is
\* hard-forbidden.
SquadreValide(t) ==
    {S \in SUBSET Rosa(t) :
        /\ Cardinality(S) = t.n_vigili
        /\ _preferenze_obbligatorie(config, t.autista) \cap Rosa(t) \subseteq S
        /\ \A a, b \in S : a # b => {a, b} \notin config.vietate_hard}

\* C18: with the seniority rule off the crew selection returns a team
\* exactly when its pool holds a valid team, and the team returned is one.
C18_SquadraSeEsiste ==
    config.mode_min_senior = "off" =>
      \A i \in DOMAIN tentativi :
        LET t == tentativi[i]
        IN /\ t.riuscita <=> SquadreValide(t) # {}
           /\ t.riuscita => Range(t.squadra) \in SquadreValide(t)

\* The seniors of a team.
SeniorIn(squadra) == {n \in Range(squadra) : e_senior(config, n)}

\* C19: with the minimum of seniors in hard mode a team returned by the
\* crew selection has the minimum of seniors, or its pool had no senior;
\* then the log has exactly one entry "no senior available" for the date.
C19_MinimoSenior ==
    (config.mode_min_senior = "hard" /\ tentativi # <<>>) =>
      \A i \in DOMAIN tentativi :
        LET t == tentativi[i]
        IN t.riuscita =>
             \/ Cardinality(SeniorIn(t.squadra)) >= min_esperti(config)
             \/ /\ SeniorIn(t.disponibili) = {}
                /\ Cardinality(VociDi(UltimoGiorno, "DerogaNessunSenior")) = 1

\* The crew members of the pool of an internal call t that the configuration
\* pairs with t's driver by a hard preference.
PreferitiInRosa(t) ==
    {p[2] : p \in {q \in config.preferite_hard : q[1] = t.autista}} \cap Range(t.disponibili)

PreferitiTroncati ==
    /\ tentativi # <<>>
    /\ tentativi[Len(tentativi)].riuscita
    /\ Cardinality(PreferitiInRosa(tentativi[Len(tentativi)])) > tentativi[Len(tentativi)].n_vigili

\* An internal call t is of a Friday on which the special rule is applied,
\* Varchi is a senior crew member and the Saturday of the week is not
\* driven by Pogliani.
VenerdiConBonus(t) ==
    /\ Dow(t.giorno) = 4
    /\ t.apply_varchi
    /\ config.autista_varchi \in config.vigili \cap config.senior
    /\ t.sabato_autista # config.autista_pogliani

\* The crew turns the counters hold for p in the ISO week of g.
TurniVigile(p, g) == tot_settimana(cont_vig, p, _week_key(g))

\* C21 as the specification has it: on such a Friday the base crew has 3
\* slots; the call that decided the date leaves the fourth slot None, with a
\* log entry, exactly when Varchi is on vacation or has reached the weekly
\* cap, whatever the mode of the cap, and otherwise names Varchi there.
C21_BonusSaltatoAlLimite ==
    tentativi # <<>> =>
      LET t == tentativi[Len(tentativi)]
          g == UltimoGiorno
          v == config.autista_varchi
          salta == _in_ferie(config, v, g) \/ v \in t.al_limite
      IN (VenerdiConBonus(t) /\ t.riuscita) =>
           /\ t.n_vigili = 3
           /\ assegnazioni[g].vigili[4] = None <=> salta
           /\ salta => VociDi(g, "VarchiInFerie") \cup VociDi(g, "VarchiAlLimite") # {}
           /\ ~salta => assegnazioni[g].vigili[4] = v

\* C21: on such a Friday the base crew has 3 slots; a call that got its
\* base crew skips Varchi, with a log entry, exactly when Varchi is on
\* vacation or, with the cap in hard mode, has reached the weekly cap, and
\* otherwise appends Varchi with a log entry; the date decided by such a
\* call has its fourth slot None in the first case and Varchi there in the
\* second, and a date decided by one call adds one crew turn to Varchi's
\* counters exactly when Varchi is appended.
C21_BonusSaltato ==
    /\ [](\A i \in DOMAIN tentativi :
           LET t == tentativi[i]
               g == t.giorno
               v == config.autista_varchi
               salta == \/ _in_ferie(config, v, g)
                        \/ config.mode_weekly_cap = "hard" /\ v \in t.al_limite
           IN (VenerdiConBonus(t) /\ t.riuscita) =>
                /\ t.n_vigili = 3
                /\ t.include_varchi
                /\ VociDi(g, "VarchiInFerie") \cup VociDi(g, "VarchiAlLimite") # {} <=> salta
                /\ VociDi(g, "VenerdiSpeciale") # {} <=> ~salta
                /\ i = Len(tentativi) =>
                     /\ assegnazioni[g].vigili[4] = (IF salta THEN None ELSE v)
                     /\ ~salta => TurniVigile(v, g) >= 1)
    /\ [][(/\ Len(tentativi') = 1
           /\ VenerdiConBonus(tentativi'[1])
           /\ tentativi'[1].riuscita)
          => LET g == tentativi'[1].giorno
                 v == config.autista_varchi
             IN cont_vig'[v] = IF assegnazioni'[g].vigili[4] = v
                               THEN aggiungi(cont_vig, v, g)[v]
                               ELSE cont_vig[v]]_vars

\* C21 witness: with the cap in hard mode Varchi had reached the cap when
\* the base crew of the Friday was chosen, and the bonus slot was skipped.
C21_Witness ==
    /\ tentativi # <<>>
    /\ VenerdiConBonus(tentativi[1])
    /\ tentativi[1].riuscita
    /\ config.mode_weekly_cap = "hard"
    /\ config.autista_varchi \in tentativi[1].al_limite
    /\ VociDi(UltimoGiorno, "VarchiAlLimite") # {}

\* The bonus slot was given: Varchi is the fourth crew member of a Friday.
BonusDato ==
    /\ tentativi # <<>>
    /\ VenerdiConBonus(tentativi[Len(tentativi)])
    /\ assegnazioni[UltimoGiorno].vigili[4] = config.autista_varchi

\* An internal call t is of a Saturday on which the special rule is applied,
\* Varchi is a senior crew member and the driver selected is Pogliani.
SabatoSostituito(t) ==
    /\ Dow(t.giorno) = 5
    /\ t.apply_varchi
    /\ config.autista_varchi \in config.vigili \cap config.senior
    /\ t.autista = config.autista_pogliani

\* C22: when the call that decided a Saturday is such a call, the
\* Assegnazione names Varchi as driver, the log records the substitution and
\* the real driver remembered is Pogliani; when it is the only call of the
\* date, Pogliani's driver counters get the turn and Varchi's are unchanged.
C22_SostituzioneSoloVisualizzata ==
    /\ [](tentativi # <<>> =>
           LET t == tentativi[Len(tentativi)]
               g == UltimoGiorno
           IN SabatoSostituito(t) =>
                /\ assegnazioni[g].autista = config.autista_varchi
                /\ VociDi(g, "VisualizzoAlPostoDi") # {}
                /\ autisti_reali[g] = config.autista_pogliani)
    /\ [][(Len(tentativi') = 1 /\ SabatoSostituito(tentativi'[1]))
          => /\ cont_aut'[config.autista_varchi] = cont_aut[config.autista_varchi]
             /\ cont_aut'[config.autista_pogliani]
                  = aggiungi(cont_aut, config.autista_pogliani, tentativi'[1].giorno)[config.autista_pogliani]
             /\ \A n \in config.autisti \ {config.autista_pogliani} : cont_aut'[n] = cont_aut[n]]_vars

\* The persons whose configured weekly cap is 0 or negative.
SenzaLimite == {n \in DOMAIN config.weekly_cap : config.weekly_cap[n] <= 0}

\* The log entries of a weekly-cap relaxation that name p.
DerogheLimiteDi(p) ==
    {i \in DOMAIN log :
        \/ log[i][3][1] = "DerogaLimiteSettimanale" /\ log[i][3][2] = p
        \/ /\ log[i][3][1] = "DerogaIncludo"
           /\ "limite settimanale" \in log[i][3][2]
           /\ p \in Range(log[i][3][3])}

\* C23: in every mode of the weekly cap a person with a configured cap of 0
\* or less is never at the cap for a call, stays among the driver
\* candidates when neither excluded nor on vacation, stays among the base
\* candidates of the crew when neither excluded, on vacation nor held back
\* by the summer rule, and is named by no weekly-cap relaxation entry.
C23_LimiteZeroIllimitato ==
    \A p \in SenzaLimite :
      /\ DerogheLimiteDi(p) = {}
      /\ \A i \in DOMAIN tentativi :
           LET t == tentativi[i]
           IN /\ p \notin t.al_limite \cup t.autisti_al_limite
              /\ (p \in config.autisti \ t.esclusioni_autista /\ ~_in_ferie(config, p, t.giorno))
                   => p \in t.candidati_autista
              /\ (/\ p \in config.vigili \ t.esclusioni_vigili
                  /\ ~_in_ferie(config, p, t.giorno)
                  /\ ~summer_block(config, p, t.giorno))
                   => p \in Range(t.candidati_base)

\* C23 witness: with the cap in hard mode a crew member with cap 0 is a
\* base candidate of the third date of an ISO week after a crew turn on
\* each of the other two, and a driver with a negative cap drives a second
\* date of the week.
C23_Witness ==
    /\ config.mode_weekly_cap = "hard"
    /\ tentativi # <<>>
    /\ \E p \in SenzaLimite \cap config.vigili :
         /\ p \in Range(tentativi[Len(tentativi)].candidati_base)
         /\ Cardinality({d \in Decise \ {UltimoGiorno} : p \in Equipaggio(d)}) = 2
         /\ TurniVigile(p, UltimoGiorno) >= 2
    /\ \E p \in SenzaLimite \cap config.autisti :
         Cardinality({d \in Decise : autisti_reali[d] = p}) >= 2

\* The weekdays and the months in force for the call: those given that are
\* in range, or the default weekdays and all twelve months when none is.
GiorniInVigore ==
    IF chiamata.weekdays \cap 0..6 = {} THEN {4, 5, 6} ELSE chiamata.weekdays \cap 0..6

MesiInVigore ==
    IF \E ms \in chiamata.months : ms \cap 1..12 # {}
    THEN UNION {ms \cap 1..12 : ms \in chiamata.months}
    ELSE 1..12

\* C24: the list date_attive_anno returns is strictly ascending and holds
\* exactly the days of the year whose weekday and month are in force.
C24_CalendarioEsatto ==
    (chiamata # <<>> /\ chiamata.fatta) =>
      LET r == chiamata.ritorno
      IN /\ \A i, j \in DOMAIN r : i < j => r[i] < r[j]
         /\ Range(r) = {g \in 1..GiorniAnno : Dow(g) \in GiorniInVigore /\ Mese(g) \in MesiInVigore}

\* C24 witness: a call with only out-of-range weekdays and no month given
\* returned the Fridays, Saturdays and Sundays of the whole year.
C24_Witness ==
    /\ chiamata # <<>>
    /\ chiamata.fatta
    /\ chiamata.weekdays = {-1, 7}
    /\ chiamata.months = {{}}
    /\ Len(chiamata.ritorno) = 157
    /\ chiamata.ritorno[1] = 1
    /\ chiamata.ritorno[157] = 365

\* C25: with the weekly cap in soft mode the driver selection returns a
\* driver who had reached the cap of the ISO week only when every driver
\* neither excluded nor on vacation had reached it.
C25_OltreLimiteSenzaAlternativa ==
    config.mode_weekly_cap = "soft" =>
      \A i \in DOMAIN tentativi :
        LET t == tentativi[i]
        IN (t.autista # None /\ t.autista \in t.autisti_al_limite)
             => AutistiAmmessi(t) \subseteq t.autisti_al_limite

\* The crew members neither excluded nor on vacation for an internal call t.
VigiliAmmessi(t) ==
    {n \in config.vigili : n \notin t.esclusioni_vigili /\ ~_in_ferie(config, n, t.giorno)}

\* The teams of the size of t's team among those crew members that hold no
\* hard-forbidden pair, the minimum of seniors and the hard-preferred
\* members of t's driver among them.
SquadrePossibili(t) ==
    {S \in SUBSET VigiliAmmessi(t) :
        /\ Cardinality(S) = t.n_vigili
        /\ \A a, b \in S : a # b => {a, b} \notin config.vietate_hard
        /\ Cardinality({n \in S : e_senior(config, n)}) >= min_esperti(config)
        /\ _preferenze_obbligatorie(config, t.autista) \cap VigiliAmmessi(t) \subseteq S}

\* C26: with the weekly cap and the summer rule in soft mode the crew
\* selection returns a team whenever the crew members neither excluded nor
\* on vacation hold a team that passes the hard checks.
C26_SoftNonScopre ==
    (config.mode_weekly_cap = "soft" /\ config.mode_summer = "soft") =>
      \A i \in DOMAIN tentativi :
        SquadrePossibili(tentativi[i]) # {} => tentativi[i].riuscita

\* The tuple by which the drivers are ranked for an internal call t, from
\* the counters before the call; the flag of the cap counts in soft mode.
ChiaveDichiarata(t, n) ==
    LET ca == t.cont_aut_prima
    IN <<IF config.mode_weekly_cap = "soft" /\ n \in t.autisti_al_limite THEN 1 ELSE 0,
         tot_settimana(ca, n, _week_key(t.giorno)),
         tot_mese(ca, n, Mese(t.giorno)),
         tot_annuale(ca, n),
         tot_giorno_anno(ca, n, Dow(t.giorno)),
         IF ultimo_dow(ca, n) = Dow(t.giorno) THEN 1 ELSE 0>>

\* The drivers that remain for t and have not driven on the month and
\* weekday of its date, or all that remain when there is none.
RosaAutisti(t) ==
    LET mai == {n \in AutistiRimasti(t) :
                  tot_mese_giorno(t.cont_aut_prima, n, Mese(t.giorno), Dow(t.giorno)) < 1}
    IN IF mai = {} THEN AutistiRimasti(t) ELSE mai

\* C27: the driver a call returns is one of that pool with no smaller tuple
\* in it, and the log has the relaxation entry for the date exactly when a
\* call had drivers left and all of them had driven on the month and
\* weekday.
C27_AutistaMinimo ==
    /\ \A i \in DOMAIN tentativi :
         LET t == tentativi[i]
         IN t.autista # None =>
              /\ t.autista \in RosaAutisti(t)
              /\ \A o \in RosaAutisti(t) :
                   ~LexMinore(ChiaveDichiarata(t, o), ChiaveDichiarata(t, t.autista))
    /\ tentativi # <<>> =>
         (VociDi(UltimoGiorno, "DerogaMeseGiorno") # {}
            <=> \E i \in DOMAIN tentativi :
                  /\ AutistiRimasti(tentativi[i]) # {}
                  /\ RosaAutisti(tentativi[i]) = AutistiRimasti(tentativi[i])
                  /\ \A n \in AutistiRimasti(tentativi[i]) :
                       tot_mese_giorno(tentativi[i].cont_aut_prima, n,
                                       Mese(UltimoGiorno), Dow(UltimoGiorno)) >= 1)

\* The teams an internal call t accepted: those of its size from its pool
\* that hold the pooled hard-preferred members, no hard-forbidden pair and
\* were not discarded for their seniors; when the hard-preferred members
\* outnumber the slots, the one team made of the first of them.
SquadreAccettate(t) ==
    IF Cardinality(PreferitiInRosa(t)) > t.n_vigili
    THEN {Range(t.squadra)}
    ELSE {S \in SUBSET Range(t.disponibili) :
            /\ Cardinality(S) = t.n_vigili
            /\ PreferitiInRosa(t) \subseteq S
            /\ \A a, b \in S : a # b => {a, b} \notin config.vietate_hard
            /\ \A q \in t.scartate_senior : Range(q) # S}

\* The soft-forbidden pairs inside a team.
CoppieSconsigliate(S) == {c \in config.vietate_soft : c \subseteq S}

\* The sum of f over the members of S.
RECURSIVE SommaSu(_, _)
SommaSu(f, S) == IF S = {} THEN 0 ELSE LET n == CHOOSE x \in S : TRUE IN f[n] + SommaSu(f, S \ {n})

\* The score of a team S for t, from the crew counters and the teams seen
\* before the call.
PunteggioDichiarato(t, S) ==
    LET cv == t.cont_vig_prima
        m  == Mese(t.giorno)
        d  == Dow(t.giorno)
        wk == _week_key(t.giorno)
    IN <<Cardinality(CoppieSconsigliate(S)),
         Cardinality({n \in S : tot_mese_giorno(cv, n, m, d) >= 1}),
         IF S \in t.squadre_visti_prima THEN 1 ELSE 0,
         SommaSu([n \in S |-> tot_settimana(cv, n, wk)], S),
         SommaSu([n \in S |-> tot_mese(cv, n, m)], S),
         SommaSu([n \in S |-> tot_annuale(cv, n)], S),
         SommaSu([n \in S |-> tot_giorno_anno(cv, n, d)], S),
         Cardinality({n \in S : ultimo_dow(cv, n) = d}),
         0 - Cardinality({n \in S : <<t.autista, n>> \in config.preferite_soft})>>

\* C28: the team a call returns is an accepted team, and no accepted team
\* has a smaller score; so it holds no more soft-forbidden pairs than any
\* accepted team.
C28_SquadraMinima ==
    \A i \in DOMAIN tentativi :
      LET t == tentativi[i]
      IN (t.riuscita /\ t.n_vigili > 0) =>
           /\ Range(t.squadra) \in SquadreAccettate(t)
           /\ \A S \in SquadreAccettate(t) :
                /\ ~LexMinore(PunteggioDichiarato(t, S), PunteggioDichiarato(t, Range(t.squadra)))
                /\ Cardinality(CoppieSconsigliate(Range(t.squadra)))
                     <= Cardinality(CoppieSconsigliate(S))

\* C28 witness: a call accepted teams with and without a soft-forbidden
\* pair and returned one without.
C28_Witness ==
    /\ tentativi # <<>>
    /\ LET t == tentativi[Len(tentativi)]
       IN /\ t.riuscita
          /\ \E S \in SquadreAccettate(t) : CoppieSconsigliate(S) # {}
          /\ CoppieSconsigliate(Range(t.squadra)) = {}

\* All the (iso year, iso week) keys of the dates of the year.
Settimane == {_week_key(g) : g \in 1..GiorniAnno}

\* The sums of the counters of person n in the Conteggi c agree with the
\* annual total.
SommeUguali(c, n) ==
    /\ tot_annuale(c, n) = SommaSu([m \in 1..12 |-> tot_mese(c, n, m)], 1..12)
    /\ tot_annuale(c, n) = SommaSu([k \in (1..12) \X (0..6) |-> tot_mese_giorno(c, n, k[1], k[2])],
                                   (1..12) \X (0..6))
    /\ tot_annuale(c, n) = SommaSu([d \in 0..6 |-> tot_giorno_anno(c, n, d)], 0..6)
    /\ tot_annuale(c, n) = SommaSu([w \in Settimane |-> tot_settimana(c, n, w)], Settimane)
    /\ DOMAIN c[n].per_settimana \subseteq Settimane

\* What aggiungi(nome, g) does between the Conteggi c and the Conteggi d.
AggiuntoUno(c, d, nome, g) ==
    /\ DOMAIN d = DOMAIN c \cup {nome}
    /\ tot_annuale(d, nome) = tot_annuale(c, nome) + 1
    /\ tot_mese(d, nome, Mese(g)) = tot_mese(c, nome, Mese(g)) + 1
    /\ tot_mese_giorno(d, nome, Mese(g), Dow(g)) = tot_mese_giorno(c, nome, Mese(g), Dow(g)) + 1
    /\ tot_giorno_anno(d, nome, Dow(g)) = tot_giorno_anno(c, nome, Dow(g)) + 1
    /\ tot_settimana(d, nome, _week_key(g)) = tot_settimana(c, nome, _week_key(g)) + 1
    /\ ultimo_dow(d, nome) = Dow(g)
    /\ \A m \in DOMAIN c \ {nome} : d[m] = c[m]

\* What assicura_persona(nome) does between the Conteggi c and the Conteggi d.
Assicurato(c, d, nome) ==
    /\ DOMAIN d = DOMAIN c \cup {nome}
    /\ \A m \in DOMAIN c : d[m] = c[m]
    /\ nome \notin DOMAIN c =>
         /\ tot_annuale(d, nome) = 0
         /\ \A g \in 1..GiorniAnno :
              /\ tot_mese(d, nome, Mese(g)) = 0
              /\ tot_mese_giorno(d, nome, Mese(g), Dow(g)) = 0
              /\ tot_giorno_anno(d, nome, Dow(g)) = 0
              /\ tot_settimana(d, nome, _week_key(g)) = 0
         /\ ultimo_dow(d, nome) = -1

\* C29: aggiungi adds exactly one to the person's annual, monthly,
\* month-weekday, weekday and week counts, sets the last weekday and leaves
\* everybody else alone; assicura_persona resets nothing and doing it twice
\* is doing it once; so after any calls the annual total of each person is
\* the sum of the monthly, of the month-weekday, of the weekday and of the
\* week counts.
C29_ContabilitaConteggi ==
    /\ [](\A n \in DOMAIN cont_vig : SommeUguali(cont_vig, n))
    /\ [](\A n \in NomiDati :
            assicura_persona(assicura_persona(cont_vig, n), n) = assicura_persona(cont_vig, n))
    /\ [][/\ chiama_aggiungi =>
               AggiuntoUno(cont_vig, cont_vig', chiamata'.nome, chiamata'.giorno)
          /\ chiama_assicura_persona =>
               Assicurato(cont_vig, cont_vig', chiamata'.nome)]_vars

\* C29 witness: after three calls a person has two turns in one month on
\* different weekdays and weeks, and another person was only created.
C29_Witness ==
    /\ corsa.ingresso = "Conteggi"
    /\ corsa.n = 3
    /\ DOMAIN cont_vig = {"Rossi", "Bianchi"}
    /\ tot_annuale(cont_vig, "Rossi") = 2
    /\ tot_mese(cont_vig, "Rossi", 1) = 2
    /\ tot_settimana(cont_vig, "Rossi", <<Anno - 1, 52>>) = 1
    /\ tot_settimana(cont_vig, "Rossi", <<Anno, 1>>) = 1
    /\ ultimo_dow(cont_vig, "Rossi") = 0
    /\ tot_annuale(cont_vig, "Bianchi") = 0

\* The weekly cap in force for a name: the configured one, else the default.
LimiteInVigore(n) ==
    IF n \in DOMAIN config.weekly_cap THEN config.weekly_cap[n] ELSE DEFAULT_WEEKLY_CAP

\* The decided dates of week w that n really drives.
DateGuidate(n, w) == {d \in Decise : _week_key(d) = w /\ autisti_reali[d] = n}

\* The decided dates of week w on which n holds a crew slot.
DateInSquadra(n, w) == {d \in Decise : _week_key(d) = w /\ n \in Equipaggio(d)}

\* C30: with the weekly cap hard, a person with a cap above zero drives on
\* no more dates of a week than the cap, and holds a crew slot on no more
\* dates of a week than the cap.
C30_LimitePerRuolo ==
    config.mode_weekly_cap = "hard" =>
      \A n \in config.autisti \cup config.vigili : \A d \in Decise :
        LimiteInVigore(n) > 0 =>
          /\ Cardinality(DateGuidate(n, _week_key(d))) <= LimiteInVigore(n)
          /\ Cardinality(DateInSquadra(n, _week_key(d))) <= LimiteInVigore(n)

\* C30 witness: with the cap hard, a week has three decided dates, a driver
\* drove as many of them as the cap allows and a crew member with a cap of
\* two served on two of them.
C30_Witness ==
    /\ config.mode_weekly_cap = "hard"
    /\ \E d \in Decise :
         LET w == _week_key(d)
         IN /\ Cardinality({e \in Decise : _week_key(e) = w}) = 3
            /\ \E n \in config.autisti :
                 /\ LimiteInVigore(n) > 0
                 /\ Cardinality(DateGuidate(n, w)) = LimiteInVigore(n)
            /\ \E n \in config.vigili :
                 /\ LimiteInVigore(n) = 2
                 /\ Cardinality(DateInSquadra(n, w)) = 2

=============================================================================
